---- MODULE Spec2Model ----
(***************************************************************************)
(* Model of the WhatsApp chat-export parser (WhatsAppParser), the          *)
(* analytics engine (WhatsAppAnalytics) and the state they keep.           *)
(*                                                                         *)
(* A line of the export is modelled by what the parser's regular           *)
(* expressions can see of it: whether it is blank, free text, or starts    *)
(* with a timestamp; the three numeric date components and the separator;  *)
(* the time token; the sender field in front of the first colon (if any);  *)
(* whether the raw line carries leading whitespace or a trailing carriage  *)
(* return (both removed by String.trim, both fatal to an anchored match).   *)
(* Instants are whole seconds (the parser never produces a fraction of a   *)
(* second), kept as a day number and a second of the day; every duration   *)
(* of the source in milliseconds is the same duration here in seconds.     *)
(***************************************************************************)
EXTENDS Integers, Sequences, FiniteSets, TLC

VARIABLES
    dateFormat,      \* WhatsAppParser.dateFormat
    dateSeparator,   \* WhatsAppParser.dateSeparator
    isISOFormat,     \* WhatsAppParser.isISOFormat
    tz,              \* host time-zone offset, minutes east of UTC
    text,            \* the text the caller holds, argument of its calls
    parsed,          \* ParseResult returned by the last parse call
    out,             \* value returned by the last query on the result
    calls,           \* number of parse calls made on the shared instance
    app              \* window.app, the WhatsAppAnalyzerApp and what it shows

vars == <<dateFormat, dateSeparator, isISOFormat, tz, text, parsed, out, calls,
          app>>

----------------------------------------------------------------------------
(* Bounds *)

MaxLines == 3        \* lines per text, record and date-order specifications
MaxReuse == 2        \* lines per text, shared-instance specification
MaxCalls == 2        \* parse calls on the shared parser instance
MaxChat == 4         \* lines per text, analytics specification

Null == "null"
NoMsg == [open |-> FALSE]        \* currentMessage = null
NoResult == [none |-> TRUE]      \* no ParseResult yet
NoOut == [op |-> "none"]         \* no query made on the result yet
NoSender == "<none>"
NoSec == -1

----------------------------------------------------------------------------
(* Calendar arithmetic of the JavaScript Date object *)

\* floor division and modulus for possibly negative numerators
FloorDiv(a, b) == IF a >= 0 THEN a \div b ELSE -((-a + b - 1) \div b)
FloorMod(a, b) == a - b * FloorDiv(a, b)

\* days from 1970-01-01 to the civil date y-m-d, m in 1..12
DaysFromCivil(y, m, d) ==
    LET yy  == IF m <= 2 THEN y - 1 ELSE y
        era == FloorDiv(yy, 400)
        yoe == yy - era * 400
        mp  == (m + 9) % 12
        doy == (153 * mp + 2) \div 5 + d - 1
        doe == yoe * 365 + yoe \div 4 - yoe \div 100 + doy
    IN  era * 146097 + doe - 719468

\* An instant is [d |-> days since 1970-01-01, s |-> second of that day], in
\* UTC; Norm carries a second count outside 0..86399 into the days.
Norm(days, secs) ==
    [d |-> days + FloorDiv(secs, 86400), s |-> FloorMod(secs, 86400)]

\* new Date(year, monthIndex, day, hours, minutes, seconds): the local
\* wall-clock value, every field overflowing into the next larger one
MakeLocal(year, monthIndex, day, hours, minutes, seconds) ==
    LET y == year + FloorDiv(monthIndex, 12)
        m == FloorMod(monthIndex, 12) + 1
    IN  Norm(DaysFromCivil(y, m, 1) + day - 1,
             hours * 3600 + minutes * 60 + seconds)

\* the instant of a local wall-clock value in a zone, and back
ToInstant(local, zone) == Norm(local.d, local.s - zone * 60)
ToLocal(instant, zone) == Norm(instant.d, instant.s + zone * 60)

\* a.getTime() < b.getTime()
Before(a, b) == a.d < b.d \/ (a.d = b.d /\ a.s < b.s)
\* a - b, in seconds
Diff(a, b) == (a.d - b.d) * 86400 + (a.s - b.s)
\* a - b as [d, s], and Math.floor((a - b) / one day)
Span(a, b) == Norm(a.d - b.d, a.s - b.s)

\* Date.getHours(), getMinutes(), getSeconds()
GetHours(instant, zone) == ToLocal(instant, zone).s \div 3600
GetMinutes(instant, zone) == (ToLocal(instant, zone).s % 3600) \div 60
GetSeconds(instant, zone) == ToLocal(instant, zone).s % 60
\* the local calendar day (getFullYear, getMonth, getDate) as a day number
LocalDay(instant, zone) == ToLocal(instant, zone).d
\* date.toISOString().split('T')[0]: the UTC calendar day as a day number
IsoDateKey(instant) == instant.d

----------------------------------------------------------------------------
(* Lines *)

Time(h, m, s, mer) == [h |-> h, m |-> m, s |-> s, mer |-> mer]
NoTime == Time(0, 0, NoSec, "")

\* a line that starts with a timestamp
Hdr(p, sep, time, sender, colon, content, txt) ==
    [form |-> "hdr", lead |-> FALSE, cr |-> FALSE, p |-> p, sep |-> sep,
     time |-> time, sender |-> sender, colon |-> colon,
     content |-> content, txt |-> txt]
\* a line without a timestamp
TextLine(txt) ==
    [form |-> "text", lead |-> FALSE, cr |-> FALSE, p |-> <<0, 0, 0>>,
     sep |-> "/", time |-> NoTime, sender |-> NoSender, colon |-> FALSE,
     content |-> txt, txt |-> txt]
\* an empty or all-whitespace line
BlankLine ==
    [form |-> "blank", lead |-> FALSE, cr |-> FALSE, p |-> <<0, 0, 0>>,
     sep |-> "/", time |-> NoTime, sender |-> NoSender, colon |-> FALSE,
     content |-> "", txt |-> ""]
WithLead(l) == [l EXCEPT !.lead = TRUE]
WithCR(l) == [l EXCEPT !.cr = TRUE]

\* String.prototype.trim
Trim(l) == [l EXCEPT !.lead = FALSE, !.cr = FALSE]

----------------------------------------------------------------------------
(* Timestamp grammars *)

\* An anchored pattern (^ ... (.*)$ without the m flag) matches the string it
\* is given only if the timestamp is its first character and no carriage
\* return sits between the content and the end of the string.
Anchored(line) == line.form = "hdr" /\ ~line.lead /\ ~line.cr

\* the text after the timestamp, as the system grammars capture it, contains
\* a colon: always so when a sender field precedes a colon
TrailingHasColon(line) == line.colon \/ line.sender # NoSender

\* tryParseMessage: some message grammar isolates a sender before a colon
tryParseMessage(line) ==
    [success |-> Anchored(line) /\ line.sender # NoSender, match |-> line]

\* tryParseSystemMessage without the test of the last group
tryParseSystemMessage_noColonTest(line) ==
    [success |-> Anchored(line), match |-> line]

\* tryParseSystemMessage: some system grammar matches and its last group
\* has no colon
tryParseSystemMessage(line) ==
    [success |-> Anchored(line) /\ ~TrailingHasColon(line), match |-> line]

\* detectLoop without the break: every line of the file is scanned
RECURSIVE detectLoop_noBreak(_, _, _)
detectLoop_noBreak(lines, i, acc) ==
    IF i > Len(lines) THEN acc
    ELSE
      LET line == lines[i]
          hasMatch == tryParseMessage(line).success
                        \/ tryParseSystemMessage(line).success
          p1 == line.p[1]
          p2 == line.p[2]
          iso == p1 > 31 /\ p1 < 3000
          a1 == IF hasMatch
                THEN [acc EXCEPT
                        !.separator = line.sep,
                        !.isISO = acc.isISO \/ iso,
                        !.isMMDD = acc.isMMDD \/ (~iso /\ p2 > 12),
                        !.isDDMM = acc.isDDMM \/ (~iso /\ p1 > 12)]
                ELSE acc
      IN  detectLoop_noBreak(lines, i + 1, a1)

\* detectDateFormat, one iteration of the loop and its break
RECURSIVE detectLoop(_, _, _)
detectLoop(lines, i, acc) ==
    IF i > Len(lines) THEN acc
    ELSE
      LET line == lines[i]
          messageMatch == tryParseMessage(line)
          systemMatch == tryParseSystemMessage(line)
          hasMatch == messageMatch.success \/ systemMatch.success
          p1 == line.p[1]
          p2 == line.p[2]
          iso == p1 > 31 /\ p1 < 3000
          a1 == IF hasMatch
                THEN [acc EXCEPT
                        !.separator = line.sep,
                        !.isISO = acc.isISO \/ iso,
                        !.isMMDD = acc.isMMDD \/ (~iso /\ p2 > 12),
                        !.isDDMM = acc.isDDMM \/ (~iso /\ p1 > 12)]
                ELSE acc
      IN  IF hasMatch /\ (a1.isMMDD \/ a1.isDDMM \/ a1.isISO)
          THEN a1
          ELSE detectLoop(lines, i + 1, a1)

\* detectDateFormat(lines) on a parser whose fields are self: the returned
\* format and the fields it leaves behind
detectDateFormat(lines, self) ==
    LET acc == detectLoop(lines, 1,
                 [isMMDD |-> FALSE, isDDMM |-> FALSE, isISO |-> FALSE,
                  separator |-> "/"])
        format == IF acc.isISO THEN "YYYY-MM-DD"
                  ELSE IF acc.isMMDD /\ ~acc.isDDMM THEN "MM/DD/YYYY"
                  ELSE IF acc.isDDMM /\ ~acc.isMMDD THEN "DD/MM/YYYY"
                  ELSE "DD/MM/YYYY"
    IN  [format |-> format,
         self |-> [self EXCEPT !.dateSeparator = acc.separator,
                               !.isISOFormat = self.isISOFormat \/ acc.isISO]]

ToUpperCase(mer) ==
    IF mer = "am" THEN "AM" ELSE IF mer = "pm" THEN "PM" ELSE mer

\* the 12-hour conversion without the exception for 12 PM
MeridiemHours_noon(hours, meridiem) ==
    LET h1 == IF meridiem # "" /\ ToUpperCase(meridiem) = "PM"
              THEN hours + 12 ELSE hours
    IN  IF meridiem # "" /\ ToUpperCase(meridiem) = "AM" /\ h1 = 12
        THEN 0 ELSE h1

\* the hour after the 12-hour conversion of parseTimestamp
MeridiemHours(hours, meridiem) ==
    LET h1 == IF meridiem # "" /\ ToUpperCase(meridiem) = "PM" /\ hours # 12
              THEN hours + 12 ELSE hours
    IN  IF meridiem # "" /\ ToUpperCase(meridiem) = "AM" /\ h1 = 12
        THEN 0 ELSE h1

\* parseTimestamp(dateStr, timeStr) with this.dateFormat = format
parseTimestamp(p, time, format, zone) ==
    LET day   == IF format = "YYYY-MM-DD" THEN p[3]
                 ELSE IF format = "MM/DD/YYYY" THEN p[2] ELSE p[1]
        month == IF format = "YYYY-MM-DD" THEN p[2]
                 ELSE IF format = "MM/DD/YYYY" THEN p[1] ELSE p[2]
        year  == IF format = "YYYY-MM-DD" THEN p[1] ELSE p[3]
        fullYear == IF year < 100 THEN 2000 + year ELSE year
        hours == MeridiemHours(time.h, time.mer)
        seconds == IF time.s = NoSec THEN 0 ELSE time.s
    IN  ToInstant(MakeLocal(fullYear, month - 1, day, hours, time.m, seconds),
                  zone)

\* processMessage
processMessage(msg, format, zone) ==
    LET timestamp == parseTimestamp(msg.p, msg.time, format, zone)
    IN  [timestamp |-> timestamp,
         sender |-> msg.sender,
         content |-> msg.content,
         isSystem |-> msg.isSystem,
         hour |-> GetHours(timestamp, zone),
         day |-> LocalDay(timestamp, zone)]

\* Set.add on the insertion-ordered participant set
SetAdd(seq, x) ==
    IF \E k \in 1..Len(seq) : seq[k] = x THEN seq ELSE Append(seq, x)

\* push the open record and register its sender
flush(st, format, zone) ==
    IF st.cur = NoMsg THEN st
    ELSE [st EXCEPT
            !.messages = Append(st.messages,
                                processMessage(st.cur, format, zone)),
            !.participants = IF st.cur.sender # "SYSTEM"
                             THEN SetAdd(st.participants, st.cur.sender)
                             ELSE st.participants]

\* parseLine with a system header that forgets to flush the open record
parseLine_noSysFlush(st, raw, format, zone) ==
    LET line == Trim(raw)
        messageMatch == tryParseMessage(line)
        systemMatch == tryParseSystemMessage(line)
    IN  IF line.form = "blank" THEN st
        ELSE IF messageMatch.success
        THEN [flush(st, format, zone) EXCEPT
                !.cur = [p |-> line.p, time |-> line.time,
                         sender |-> line.sender,
                         content |-> <<line.content>>,
                         isSystem |-> FALSE]]
        ELSE IF systemMatch.success
        THEN [st EXCEPT
                !.cur = [p |-> line.p, time |-> line.time,
                         sender |-> "SYSTEM",
                         content |-> <<line.content>>,
                         isSystem |-> TRUE]]
        ELSE IF st.cur # NoMsg
        THEN [st EXCEPT !.cur.content = st.cur.content \o <<"\n", line.txt>>]
        ELSE st

\* parseLine with a continuation that is joined without the line break
parseLine_noBreak(st, raw, format, zone) ==
    LET line == Trim(raw)
        messageMatch == tryParseMessage(line)
        systemMatch == tryParseSystemMessage(line)
    IN  IF line.form = "blank" THEN st
        ELSE IF messageMatch.success
        THEN [flush(st, format, zone) EXCEPT
                !.cur = [p |-> line.p, time |-> line.time,
                         sender |-> line.sender,
                         content |-> <<line.content>>,
                         isSystem |-> FALSE]]
        ELSE IF systemMatch.success
        THEN [flush(st, format, zone) EXCEPT
                !.cur = [p |-> line.p, time |-> line.time,
                         sender |-> "SYSTEM",
                         content |-> <<line.content>>,
                         isSystem |-> TRUE]]
        ELSE IF st.cur # NoMsg
        THEN [st EXCEPT !.cur.content = st.cur.content \o <<line.txt>>]
        ELSE st

\* one iteration of the main loop of parse
parseLine(st, raw, format, zone) ==
    LET line == Trim(raw)
        messageMatch == tryParseMessage(line)
        systemMatch == tryParseSystemMessage(line)
    IN  IF line.form = "blank" THEN st
        ELSE IF messageMatch.success
        THEN [flush(st, format, zone) EXCEPT
                !.cur = [p |-> line.p, time |-> line.time,
                         sender |-> line.sender,
                         content |-> <<line.content>>,
                         isSystem |-> FALSE]]
        ELSE IF systemMatch.success
        THEN [flush(st, format, zone) EXCEPT
                !.cur = [p |-> line.p, time |-> line.time,
                         sender |-> "SYSTEM",
                         content |-> <<line.content>>,
                         isSystem |-> TRUE]]
        ELSE IF st.cur # NoMsg
        THEN [st EXCEPT !.cur.content = st.cur.content \o <<"\n", line.txt>>]
        ELSE st

RECURSIVE parseLoop(_, _, _, _, _)
parseLoop(lines, i, st, format, zone) ==
    IF i > Len(lines) THEN flush(st, format, zone)
    ELSE parseLoop(lines, i + 1, parseLine(st, lines[i], format, zone),
                   format, zone)

RECURSIVE MinOf(_, _)
MinOf(seq, i) ==
    IF i = Len(seq) THEN seq[i].timestamp
    ELSE LET r == MinOf(seq, i + 1)
         IN  IF Before(seq[i].timestamp, r) THEN seq[i].timestamp ELSE r
RECURSIVE MaxOf(_, _)
MaxOf(seq, i) ==
    IF i = Len(seq) THEN seq[i].timestamp
    ELSE LET r == MaxOf(seq, i + 1)
         IN  IF Before(r, seq[i].timestamp) THEN seq[i].timestamp ELSE r

\* getDateRange that answers the epoch for an empty list
getDateRange_epoch(messages) ==
    IF Len(messages) = 0
    THEN [start |-> <<Norm(0, 0)>>, end |-> <<Norm(0, 0)>>,
          duration |-> Norm(0, 0)]
    ELSE LET start == MinOf(messages, 1)
             end == MaxOf(messages, 1)
         IN  [start |-> <<start>>, end |-> <<end>>,
              duration |-> Span(end, start),
              durationDays |-> Span(end, start).d]

\* getDateRange; a Date is <<instant>>, null is << >>
getDateRange(messages) ==
    IF Len(messages) = 0
    THEN [start |-> <<>>, end |-> <<>>, duration |-> Norm(0, 0)]
    ELSE LET start == MinOf(messages, 1)
             end == MaxOf(messages, 1)
         IN  [start |-> <<start>>, end |-> <<end>>,
              duration |-> Span(end, start),
              durationDays |-> Span(end, start).d]

\* parse that keeps the date order an earlier call left on the instance
parse_keepFormat(fileContent, self, zone) ==
    LET d == detectDateFormat(fileContent, self)
        self1 == [d.self EXCEPT !.dateFormat =
                    IF self.dateFormat = Null THEN d.format
                    ELSE self.dateFormat]
        st == parseLoop(fileContent, 1,
                        [messages |-> <<>>, participants |-> <<>>,
                         cur |-> NoMsg],
                        self1.dateFormat, zone)
    IN  [self |-> self1,
         result |-> [messages |-> st.messages,
                     participants |-> st.participants,
                     totalMessages |-> Len(st.messages),
                     dateRange |-> getDateRange(st.messages),
                     rawContent |-> fileContent]]

\* parse(fileContent) on a parser whose fields are self: the ParseResult and
\* the fields the call leaves behind
parse(fileContent, self, zone) ==
    LET d == detectDateFormat(fileContent, self)
        self1 == [d.self EXCEPT !.dateFormat = d.format]
        st == parseLoop(fileContent, 1,
                        [messages |-> <<>>, participants |-> <<>>,
                         cur |-> NoMsg],
                        self1.dateFormat, zone)
    IN  [self |-> self1,
         result |-> [messages |-> st.messages,
                     participants |-> st.participants,
                     totalMessages |-> Len(st.messages),
                     dateRange |-> getDateRange(st.messages),
                     rawContent |-> fileContent]]

\* getChatStats(parsedData).messagesBySender: a count per key; a key that is
\* incremented without having been initialised holds NaN
RECURSIVE countBySender(_, _, _)
countBySender(messages, i, acc) ==
    IF i > Len(messages) THEN acc
    ELSE LET msg == messages[i]
             a1 == IF msg.isSystem THEN acc
                   ELSE IF msg.sender \in DOMAIN acc
                   THEN [acc EXCEPT ![msg.sender].n = acc[msg.sender].n + 1]
                   ELSE [k \in DOMAIN acc \cup {msg.sender} |->
                           IF k = msg.sender THEN [n |-> 0, nan |-> TRUE]
                           ELSE acc[k]]
         IN  countBySender(messages, i + 1, a1)

SeqRange(seq) == {seq[k] : k \in 1..Len(seq)}

\* getChatStats
getChatStats(parsedData) ==
    LET messages == parsedData.messages
        participants == parsedData.participants
        zero == [p \in SeqRange(participants) |-> [n |-> 0, nan |-> FALSE]]
        days == IF "durationDays" \in DOMAIN parsedData.dateRange
                THEN parsedData.dateRange.durationDays ELSE 0
    IN  [op |-> "getChatStats",
         totalMessages |-> Len(messages),
         participants |-> Len(participants),
         messagesBySender |-> countBySender(messages, 1, zero),
         dateRange |-> parsedData.dateRange,
         averageMessagesPerDay |-> IF days > 0 THEN <<Len(messages), days>>
                                   ELSE <<0, 1>>]

\* the fields of a freshly constructed parser
NewParser == [dateFormat |-> Null, dateSeparator |-> "/", isISOFormat |-> FALSE]

----------------------------------------------------------------------------
(* Inputs *)

\* host time zones: New York (winter), UTC, India
TimeZones == {-300, 0, 330}

\* all texts of 1..n lines over a set of lines ("" splits into one blank line)
TextsOver(lines, n) == UNION {[1..k -> lines] : k \in 1..n}

T1000 == Time(10, 0, NoSec, "")
T0930 == Time(9, 30, NoSec, "")
T1100 == Time(11, 0, NoSec, "")
T0800 == Time(8, 0, NoSec, "")
T2330 == Time(23, 30, NoSec, "")

\* lines of the record specification
MsgA == Hdr(<<25, 3, 2024>>, "/", T1000, "A", TRUE, "hi",
            "25/03/2024, 10:00 - A: hi")
MsgB == Hdr(<<25, 3, 2024>>, "/", T0930, "B", TRUE, "yo",
            "25/03/2024, 09:30 - B: yo")
MsgNamedSystem == Hdr(<<25, 3, 2024>>, "/", T1100, "SYSTEM", TRUE, "ok",
            "25/03/2024, 11:00 - SYSTEM: ok")
SysJoined == Hdr(<<25, 3, 2024>>, "/", T0800, NoSender, FALSE, "B joined",
            "25/03/2024, 08:00 - B joined")
SysColon == Hdr(<<25, 3, 2024>>, "/", T1000, NoSender, TRUE, ": odd",
            "25/03/2024, 10:00: odd")
Plain == TextLine("more")
RecordLines == {MsgA, MsgB, MsgNamedSystem, SysJoined, SysColon, Plain,
                BlankLine}
RecordTexts == TextsOver(RecordLines, MaxLines)

\* lines of the date-order specifications
DayFirst == Hdr(<<25, 3, 2024>>, "/", T1000, "A", TRUE, "hi",
            "25/03/2024, 10:00 - A: hi")
MonthFirst == Hdr(<<3, 25, 2024>>, "/", T1000, "A", TRUE, "hi",
            "03/25/2024, 10:00 - A: hi")
Ambiguous == Hdr(<<1, 2, 2024>>, "/", T1000, "B", TRUE, "hi",
            "01/02/2024, 10:00 - B: hi")
IsoDate == Hdr(<<2024, 3, 25>>, "-", T1000, "A", TRUE, "hi",
            "2024-03-25 10:00 - A: hi")
BothLarge == Hdr(<<13, 14, 2024>>, ".", T1000, NoSender, FALSE, "B left",
            "13.14.2024, 10:00 - B left")
DetectLines == {DayFirst, MonthFirst, Ambiguous, IsoDate, BothLarge,
                WithCR(MonthFirst), WithLead(DayFirst)}
DetectTexts == TextsOver(DetectLines, MaxLines)

ReuseLines == {DayFirst, MonthFirst, Ambiguous, IsoDate}
ReuseTexts == TextsOver(ReuseLines, MaxReuse)

----------------------------------------------------------------------------
(* The application object *)

NoText == <<>>                       \* originalRawText = null
NoEngine == [engine |-> FALSE]       \* analytics = null
NoSummary == [summary |-> FALSE]     \* nothing rendered yet
NoDay == -1                          \* a date input left empty

\* the fields of a freshly constructed WhatsAppAnalyzerApp, the message last
\* passed to showError, the summary last rendered and the handler run last
NewApp ==
    [parsedData |-> NoResult,
     originalParsedData |-> NoResult,
     originalRawText |-> NoText,
     analytics |-> NoEngine,
     dateFilter |-> [startDate |-> <<>>, endDate |-> <<>>,
                     isActive |-> FALSE],
     error |-> "",
     rendered |-> NoSummary,
     handler |-> "constructor"]

----------------------------------------------------------------------------
(* State *)

parser == [dateFormat |-> dateFormat, dateSeparator |-> dateSeparator,
           isISOFormat |-> isISOFormat]

\* export default new WhatsAppParser(), on a host in some time zone, with the
\* text the caller is about to hand over
InitWith(texts) ==
    /\ dateFormat = NewParser.dateFormat
    /\ dateSeparator = NewParser.dateSeparator
    /\ isISOFormat = NewParser.isISOFormat
    /\ tz \in TimeZones
    /\ text \in texts
    /\ parsed = NoResult
    /\ out = NoOut
    /\ calls = 0
    /\ app = NewApp

\* parser.parse(t) on the shared instance
Parse(t) ==
    /\ calls < MaxCalls
    /\ LET r == parse(t, parser, tz)
       IN  /\ dateFormat' = r.self.dateFormat
           /\ dateSeparator' = r.self.dateSeparator
           /\ isISOFormat' = r.self.isISOFormat
           /\ parsed' = r.result
    /\ text' = t
    /\ out' = NoOut
    /\ calls' = calls + 1
    /\ UNCHANGED <<tz, app>>

\* the caller parses the text it holds
ParseText == Parse(text)

\* the caller parses another text with the same instance
ParseOther == \E t \in ReuseTexts : Parse(t)

\* The shared parser instance over its lifetime
Init == InitWith(ReuseTexts)
Next == ParseText \/ ParseOther
Spec == Init /\ [][Next]_vars

\* parser.getChatStats(parsedData) on the result held
GetChatStats ==
    /\ parsed # NoResult
    /\ out' = getChatStats(parsed)
    /\ UNCHANGED <<dateFormat, dateSeparator, isISOFormat, tz, text, parsed,
                   calls, app>>

\* One export parsed into records, then summarised
InitRecords == InitWith(RecordTexts)
NextRecords == ParseText \/ GetChatStats
SpecRecords == InitRecords /\ [][NextRecords]_vars

----------------------------------------------------------------------------
(* Properties of the record stream *)

\* the line, trimmed, matches a message-header grammar or is accepted by a
\* system-header grammar
IsHeaderLine(raw) ==
    tryParseMessage(Trim(raw)).success
        \/ tryParseSystemMessage(Trim(raw)).success
IsMessageHeader(raw) == tryParseMessage(Trim(raw)).success
\* the line, trimmed, is not empty and is no header
IsOtherLine(raw) == Trim(raw).form # "blank" /\ ~IsHeaderLine(raw)

HeaderLines(t) == SelectSeq(t, IsHeaderLine)
OtherLines(t) == SelectSeq(t, IsOtherLine)
RemoveAt(t, k) == SubSeq(t, 1, k - 1) \o SubSeq(t, k + 1, Len(t))

\* C1: parse emits exactly one record per header line (message header or
\* accepted system header), in the order of those lines in the input and
\* not in timestamp order; every header closes the open record and the
\* record open at the end of the input is emitted too.
C1_OneRecordPerHeader ==
    parsed # NoResult =>
        LET H == HeaderLines(text)
        IN  /\ Len(parsed.messages) = Len(H)
            /\ parsed.totalMessages = Len(H)
            /\ \A i \in 1..Len(H) :
                 LET m == parsed.messages[i]
                 IN  /\ m.sender = IF IsMessageHeader(H[i])
                                   THEN H[i].sender ELSE "SYSTEM"
                     /\ m.content[1] = H[i].content
                     /\ m.timestamp =
                          parseTimestamp(H[i].p, H[i].time, dateFormat, tz)

\* three records, the second stamped earlier than the first and left in
\* input order
C1_Witness ==
    /\ parsed # NoResult
    /\ Len(parsed.messages) = 3
    /\ Before(parsed.messages[2].timestamp, parsed.messages[1].timestamp)
    /\ parsed.messages[3].isSystem

\* the result without the passthrough of the input
Core(r) == [messages |-> r.messages, participants |-> r.participants,
            totalMessages |-> r.totalMessages, dateRange |-> r.dateRange]

\* C2: a non-empty line that matches no header grammar is appended, after a
\* line break, to the content of the open record and changes nothing else;
\* with no record open it is dropped and the result is that of the text
\* without the line.
C2_ContinuationFrame ==
    parsed # NoResult =>
        \A k \in 1..Len(text) :
            IsOtherLine(text[k]) =>
                LET without == parse(RemoveAt(text, k), NewParser, tz)
                    r0 == without.result
                    idx == Len(HeaderLines(SubSeq(text, 1, k - 1)))
                    \* continuation lines of record idx in front of line k
                    before == Len(OtherLines(SubSeq(text, 1, k - 1)))
                              - Len(OtherLines(SubSeq(text, 1,
                                   CHOOSE j \in 0..k :
                                     /\ Len(HeaderLines(SubSeq(text, 1, j)))
                                          = idx
                                     /\ \A j2 \in 0..(j - 1) :
                                          Len(HeaderLines(SubSeq(text, 1, j2)))
                                            < idx)))
                    pos == 1 + 2 * before
                IN  /\ without.self.dateFormat = dateFormat
                    /\ IF idx = 0
                       THEN Core(parsed) = Core(r0)
                       ELSE /\ Len(parsed.messages) = Len(r0.messages)
                            /\ parsed.participants = r0.participants
                            /\ parsed.dateRange = r0.dateRange
                            /\ \A i \in 1..Len(r0.messages) :
                                 LET m == parsed.messages[i]
                                     m0 == r0.messages[i]
                                 IN  IF i # idx THEN m = m0
                                     ELSE /\ [m EXCEPT !.content = <<>>]
                                               = [m0 EXCEPT !.content = <<>>]
                                          /\ m.content =
                                               SubSeq(m0.content, 1, pos)
                                               \o <<"\n", Trim(text[k]).txt>>
                                               \o SubSeq(m0.content, pos + 1,
                                                         Len(m0.content))

\* a line dropped in front of the first header and a line appended to the
\* record that header opens
C2_Witness ==
    /\ parsed # NoResult
    /\ Len(text) = 3
    /\ IsOtherLine(text[1]) /\ IsHeaderLine(text[2]) /\ IsOtherLine(text[3])
    /\ Len(parsed.messages) = 1
    /\ parsed.messages[1].content
         = <<text[2].content, "\n", Trim(text[3]).txt>>

\* C3: in every parse result a record is a system record exactly when its
\* sender is the SYSTEM sentinel.
C3_IsSystemIffSentinel ==
    parsed # NoResult =>
        \A i \in 1..Len(parsed.messages) :
            parsed.messages[i].isSystem
                <=> parsed.messages[i].sender = "SYSTEM"

RECURSIVE SumCounts(_, _, _)
SumCounts(bySender, participants, i) ==
    IF i > Len(participants) THEN 0
    ELSE bySender[participants[i]].n + SumCounts(bySender, participants, i + 1)

\* C4: the per-sender counts of getChatStats over the participant list and
\* the number of system records add up to the number of records emitted.
C4_CountsAddUp ==
    (parsed # NoResult /\ out.op = "getChatStats") =>
        /\ \A k \in DOMAIN out.messagesBySender :
             ~out.messagesBySender[k].nan
        /\ SumCounts(out.messagesBySender, parsed.participants, 1)
             + Cardinality({i \in 1..Len(parsed.messages) :
                              parsed.messages[i].isSystem})
             = Len(parsed.messages)

\* C14: parse fails on no sequence of lines; an empty text, an
\* all-whitespace text and a text without a header line give a result with
\* zero records, an empty participant list and a dateRange whose start and
\* end are null.
C14_NoHeaderNoRecords ==
    (calls > 0 /\ Len(HeaderLines(text)) = 0) =>
        /\ parsed # NoResult
        /\ parsed.messages = <<>>
        /\ parsed.totalMessages = 0
        /\ parsed.participants = <<>>
        /\ parsed.dateRange.start = <<>>
        /\ parsed.dateRange.end = <<>>

\* a text of a blank line, a free-text line and a line whose only timestamp
\* grammar is rejected for its colon, parsed into an empty result
C14_Witness ==
    /\ parsed # NoResult
    /\ Len(text) = 3
    /\ Len(HeaderLines(text)) = 0
    /\ \E i, j, k \in 1..3 :
         /\ text[i].form = "blank"
         /\ text[j].form = "text"
         /\ text[k].form = "hdr"
    /\ parsed.totalMessages = 0
    /\ parsed.dateRange.start = <<>>

----------------------------------------------------------------------------
(* Date-order inference *)

\* One export parsed for its date order
InitDetect == InitWith(DetectTexts)
NextDetect == ParseText
SpecDetect == InitDetect /\ [][NextDetect]_vars

\* C5: the result of parse on the shared instance does not depend on
\* earlier calls: records, participants, dateRange and inferred date order
\* are those a freshly constructed parser gives for the same text.
C5_NoLeakAcrossCalls ==
    parsed # NoResult =>
        LET fresh == parse(text, NewParser, tz)
        IN  /\ parsed = fresh.result
            /\ dateFormat = fresh.self.dateFormat

\* a month-first text parsed on an instance that parsed an ISO text before
C5_Witness ==
    /\ calls = 2
    /\ isISOFormat
    /\ dateFormat = "MM/DD/YYYY"
    /\ Len(parsed.messages) > 0

\* a header line (as the main pass sees it) with a first date component in
\* 13..31 and a second of at most 12
HasDayFirstHeader(t) ==
    \E k \in 1..Len(t) :
        /\ IsHeaderLine(t[k])
        /\ t[k].p[1] > 12 /\ t[k].p[1] <= 31 /\ t[k].p[2] <= 12

\* C6: the inferred order is DD/MM/YYYY for every file that contains a
\* header line with a first date component in 13..31 and a second of at most
\* 12, wherever the line stands and whatever other headers the file has.
C6_DayFirstAnywhere ==
    (parsed # NoResult /\ HasDayFirstHeader(text)) =>
        dateFormat = "DD/MM/YYYY"

IsDecisive(raw) ==
    /\ tryParseMessage(raw).success \/ tryParseSystemMessage(raw).success
    /\ raw.p[1] > 12 \/ raw.p[2] > 12

----------------------------------------------------------------------------
(* Time of day *)

Markers == {"", "AM", "PM", "am", "pm"}
TimeInputs ==
    {[p |-> <<25, 3, 2024>>, time |-> Time(h, m, sec, mer),
      format |-> "DD/MM/YYYY"] :
        h \in 0..23, m \in {0, 59}, sec \in {NoSec, 30}, mer \in Markers}

\* parser.parseTimestamp(dateStr, timeStr) and the calendar fields of the
\* Date it returns
ParseTimestamp ==
    /\ out = NoOut
    /\ LET ts == parseTimestamp(text.p, text.time, text.format, tz)
       IN  out' = [op |-> "parseTimestamp", timestamp |-> ts,
                   hour |-> GetHours(ts, tz), minute |-> GetMinutes(ts, tz),
                   second |-> GetSeconds(ts, tz), day |-> LocalDay(ts, tz)]
    /\ UNCHANGED <<dateFormat, dateSeparator, isISOFormat, tz, text, parsed,
                   calls, app>>

InitTime == InitWith(TimeInputs)
NextTime == ParseTimestamp
SpecTime == InitTime /\ [][NextTime]_vars

\* C8: parseTimestamp turns 12-hour times into 24-hour ones for every hour
\* 1..12 and both markers (PM and hour other than 12: plus 12; AM and hour
\* 12: 0; 12 PM stays 12), keeps the hour of a time without a marker, keeps
\* the minutes, and takes absent seconds as 0.
C8_TwelveHourClock ==
    (out.op = "parseTimestamp"
        /\ (text.time.mer = "" \/ text.time.h \in 1..12)) =>
        LET t == text.time
            pm == t.mer \in {"PM", "pm"}
            am == t.mer \in {"AM", "am"}
        IN  /\ out.hour = IF pm /\ t.h # 12 THEN t.h + 12
                          ELSE IF am /\ t.h = 12 THEN 0
                          ELSE t.h
            /\ out.minute = t.m
            /\ out.second = IF t.s = NoSec THEN 0 ELSE t.s
            /\ out.day = DaysFromCivil(2024, 3, 25)

\* 12:00 PM resolved to 12:00:00 of the same day
C8_Witness ==
    /\ out.op = "parseTimestamp"
    /\ text.time = Time(12, 0, NoSec, "PM")
    /\ out.hour = 12 /\ out.minute = 0 /\ out.second = 0

----------------------------------------------------------------------------
(* Analytics engine *)

\* new WhatsAppAnalytics(parsedData)
WhatsAppAnalytics(parsedData) ==
    [messages |-> parsedData.messages,
     participants |-> parsedData.participants,
     dateRange |-> parsedData.dateRange,
     userMessages |-> SelectSeq(parsedData.messages,
                                LAMBDA m : ~m.isSystem)]

\* getResponseTimeDistribution: the seven buckets, in order
Bucket(time) ==
    IF time < 60 THEN 1
    ELSE IF time < 5 * 60 THEN 2
    ELSE IF time < 30 * 60 THEN 3
    ELSE IF time < 3600 THEN 4
    ELSE IF time < 6 * 3600 THEN 5
    ELSE IF time < 24 * 3600 THEN 6
    ELSE 7
getResponseTimeDistribution(responseTimes) ==
    [b \in 1..7 |->
        Cardinality({k \in 1..Len(responseTimes) :
                        Bucket(responseTimes[k]) = b})]

\* the loop of calculateResponseTimes from index i on; a push onto the
\* table of a sender that is no participant raises a TypeError
RECURSIVE responseLoop(_, _, _)
responseLoop(um, i, acc) ==
    IF i > Len(um) \/ acc.threw THEN acc
    ELSE
      LET currentMsg == um[i]
          previousMsg == um[i - 1]
          timeDiff == Diff(currentMsg.timestamp, previousMsg.timestamp)
          hour == previousMsg.hour
      IN  IF currentMsg.sender = previousMsg.sender
          THEN responseLoop(um, i + 1, acc)
          ELSE IF currentMsg.sender \notin DOMAIN acc.bySender
          THEN [acc EXCEPT
                  !.responseTimes = Append(acc.responseTimes, timeDiff),
                  !.threw = TRUE]
          ELSE responseLoop(um, i + 1,
                 [acc EXCEPT
                    !.responseTimes = Append(acc.responseTimes, timeDiff),
                    !.bySender[currentMsg.sender] =
                        Append(acc.bySender[currentMsg.sender], timeDiff),
                    !.byHourBySender[currentMsg.sender][hour] =
                        Append(acc.byHourBySender[currentMsg.sender][hour],
                               timeDiff)])

\* calculateResponseTimes: the samples it collects
calculateResponseTimes(a) ==
    LET P == SeqRange(a.participants)
        acc == responseLoop(a.userMessages, 2,
                 [responseTimes |-> <<>>,
                  bySender |-> [p \in P |-> <<>>],
                  byHourBySender |-> [p \in P |-> [h \in 0..23 |-> <<>>]],
                  threw |-> FALSE])
    IN  IF acc.threw
        THEN [op |-> "calculateResponseTimes", threw |-> TRUE]
        ELSE [op |-> "calculateResponseTimes", threw |-> FALSE,
              responseTimes |-> acc.responseTimes,
              bySender |-> acc.bySender,
              distribution |-> getResponseTimeDistribution(acc.responseTimes),
              byHourBySender |-> acc.byHourBySender]

\* Object.keys(messagesByDate).sort(): the date keys in ascending order
RECURSIVE SortedKeys(_)
SortedKeys(S) ==
    IF S = {} THEN <<>>
    ELSE LET least == CHOOSE x \in S : \A y \in S : x <= y
         IN  <<least>> \o SortedKeys(S \ {least})

\* the loop of getConversationStreaks over the sorted date keys
RECURSIVE streakLoop(_, _, _, _, _)
streakLoop(sortedDates, messagesByDate, i, currentStreak, streaks) ==
    IF i > Len(sortedDates)
    THEN IF Len(currentStreak.days) > 1
         THEN Append(streaks, currentStreak) ELSE streaks
    ELSE
      LET date == sortedDates[i]
          cs == [days |-> Append(currentStreak.days, date),
                 messageCount |-> currentStreak.messageCount
                                    + messagesByDate[date]]
          ended == i < Len(sortedDates) /\ sortedDates[i + 1] - date > 1
      IN  IF ended
          THEN streakLoop(sortedDates, messagesByDate, i + 1,
                          [days |-> <<>>, messageCount |-> 0],
                          IF Len(cs.days) > 1 THEN Append(streaks, cs)
                          ELSE streaks)
          ELSE streakLoop(sortedDates, messagesByDate, i + 1, cs, streaks)

\* streaks.sort((a, b) => b.days.length - a.days.length), a stable sort
RECURSIVE SortByLength(_)
SortByLength(streaks) ==
    IF Len(streaks) = 0 THEN <<>>
    ELSE LET k == CHOOSE k \in 1..Len(streaks) :
                    /\ \A j \in 1..Len(streaks) :
                         Len(streaks[j].days) <= Len(streaks[k].days)
                    /\ \A j \in 1..(k - 1) :
                         Len(streaks[j].days) < Len(streaks[k].days)
         IN  <<streaks[k]>> \o SortByLength(RemoveAt(streaks, k))

\* getConversationStreaks
getConversationStreaks(a) ==
    LET um == a.userMessages
        keys == {IsoDateKey(um[k].timestamp) : k \in 1..Len(um)}
        messagesByDate ==
            [d \in keys |->
                Cardinality({k \in 1..Len(um) :
                               IsoDateKey(um[k].timestamp) = d})]
        streaks == SortByLength(
                     streakLoop(SortedKeys(keys), messagesByDate, 1,
                                [days |-> <<>>, messageCount |-> 0], <<>>))
    IN  [op |-> "getConversationStreaks",
         longestStreak |-> IF Len(streaks) > 0 THEN <<streaks[1]>> ELSE <<>>,
         totalStreaks |-> Len(streaks),
         top5Streaks |-> SubSeq(streaks, 1,
                                IF Len(streaks) < 5 THEN Len(streaks) ELSE 5)]

\* lines of the analytics specification
Jan1Late == Hdr(<<1, 1, 2024>>, "/", T2330, "A", TRUE, "hi",
            "01/01/2024, 23:30 - A: hi")
Jan2A == Hdr(<<2, 1, 2024>>, "/", T1000, "A", TRUE, "hi",
            "02/01/2024, 10:00 - A: hi")
Jan2B == Hdr(<<2, 1, 2024>>, "/", T1100, "B", TRUE, "yo",
            "02/01/2024, 11:00 - B: yo")
Jan4B == Hdr(<<4, 1, 2024>>, "/", T1000, "B", TRUE, "yo",
            "04/01/2024, 10:00 - B: yo")
Jan2NamedSystem == Hdr(<<2, 1, 2024>>, "/", T1100, "SYSTEM", TRUE, "ok",
            "02/01/2024, 11:00 - SYSTEM: ok")
Jan2Joined == Hdr(<<2, 1, 2024>>, "/", T0800, NoSender, FALSE, "B joined",
            "02/01/2024, 08:00 - B joined")
ChatLines == {Jan1Late, Jan2A, Jan2B, Jan4B, Jan2NamedSystem, Jan2Joined}
ChatTexts == TextsOver(ChatLines, MaxChat)

\* analytics.calculateResponseTimes() on an engine built from the result
CalculateResponseTimes ==
    /\ parsed # NoResult
    /\ out' = calculateResponseTimes(WhatsAppAnalytics(parsed))
    /\ UNCHANGED <<dateFormat, dateSeparator, isISOFormat, tz, text, parsed,
                   calls, app>>

\* analytics.getConversationStreaks() on an engine built from the result
GetConversationStreaks ==
    /\ parsed # NoResult
    /\ out' = getConversationStreaks(WhatsAppAnalytics(parsed))
    /\ UNCHANGED <<dateFormat, dateSeparator, isISOFormat, tz, text, parsed,
                   calls, app>>

\* One export parsed and analysed
InitAnalytics == InitWith(ChatTexts)
NextAnalytics ==
    ParseText \/ CalculateResponseTimes \/ GetConversationStreaks
SpecAnalytics == InitAnalytics /\ [][NextAnalytics]_vars

UserMessages == WhatsAppAnalytics(parsed).userMessages

\* the adjacent pairs of user messages with different senders, by the index
\* of the later message
ResponsePairs ==
    {i \in 2..Len(UserMessages) :
        UserMessages[i].sender # UserMessages[i - 1].sender}

\* C9: calculateResponseTimes records one sample for exactly each adjacent
\* pair of user messages with different senders, attributed to the sender
\* of the later message; messages inside a run of one sender add none, so
\* the number of samples is the number of sender changes.
C9_OneSamplePerSenderChange ==
    (parsed # NoResult /\ out.op = "calculateResponseTimes") =>
        /\ ~out.threw
        /\ Len(out.responseTimes) = Cardinality(ResponsePairs)
        /\ \A p \in DOMAIN out.bySender :
             Len(out.bySender[p]) =
                Cardinality({i \in ResponsePairs :
                                UserMessages[i].sender = p})
        /\ \A i \in ResponsePairs :
             /\ UserMessages[i].sender \in DOMAIN out.bySender
             /\ \E k \in 1..Len(out.bySender[UserMessages[i].sender]) :
                  out.bySender[UserMessages[i].sender][k] =
                     Diff(UserMessages[i].timestamp,
                          UserMessages[i - 1].timestamp)

\* the calendar days (year, month, day of month of the record) that have a
\* user message
MessageDays == {UserMessages[k].day : k \in 1..Len(UserMessages)}

\* the maximal runs of consecutive days of at least two days
Runs(days) ==
    {<<lo, hi>> \in days \X days :
        /\ lo < hi
        /\ \A d \in lo..hi : d \in days
        /\ (lo - 1) \notin days
        /\ (hi + 1) \notin days}

\* C10: getConversationStreaks reports exactly the maximal runs of two or
\* more consecutive calendar days that have a user message, each with its
\* days and its number of messages.
C10_StreaksAreMaximalRuns ==
    (parsed # NoResult /\ out.op = "getConversationStreaks") =>
        /\ out.totalStreaks = Cardinality(Runs(MessageDays))
        /\ \A r \in Runs(MessageDays) :
             \E k \in 1..Len(out.top5Streaks) :
                /\ out.top5Streaks[k].days
                     = [j \in 1..(r[2] - r[1] + 1) |-> r[1] + j - 1]
                /\ out.top5Streaks[k].messageCount =
                     Cardinality({j \in 1..Len(UserMessages) :
                                    UserMessages[j].day \in r[1]..r[2]})

----------------------------------------------------------------------------
(* Conversation dynamics *)

SixHours == 6 * 60 * 60          \* conversationGap, in seconds
OneDay == 24 * 60 * 60           \* ghostThreshold, in seconds

\* table[key]++ on a table of counters: a key that was never initialised
\* holds NaN from then on
Incr(table, key) ==
    IF key \in DOMAIN table
    THEN [table EXCEPT ![key].n = table[key].n + 1]
    ELSE [k \in DOMAIN table \cup {key} |->
            IF k = key THEN [n |-> 0, nan |-> TRUE] ELSE table[k]]

\* the loop of getGhostPeriods from index i on; a ghoster that is no
\* participant has no entry and the increment raises a TypeError
RECURSIVE ghostLoop(_, _, _)
ghostLoop(um, i, acc) ==
    IF i > Len(um) \/ acc.threw THEN acc
    ELSE
      LET currentMsg == um[i]
          previousMsg == um[i - 1]
          timeDiff == Diff(currentMsg.timestamp, previousMsg.timestamp)
          ghoster == currentMsg.sender
      IN  IF currentMsg.sender # previousMsg.sender /\ timeDiff > OneDay
          THEN IF ghoster \notin DOMAIN acc.ghostPeriods
               THEN [acc EXCEPT !.threw = TRUE]
               ELSE ghostLoop(um, i + 1,
                      [acc EXCEPT
                         !.ghostPeriods[ghoster].totalGhosts = @ + 1,
                         !.ghostPeriods[ghoster].ghostInstances =
                             Append(@, [duration |-> timeDiff,
                                        startDate |-> previousMsg.timestamp,
                                        endDate |-> currentMsg.timestamp]),
                         !.ghostPeriods[ghoster].longestGhost =
                             IF timeDiff > @ THEN timeDiff ELSE @])
          ELSE ghostLoop(um, i + 1, acc)

\* ghostInstances.sort((a, b) => b.duration - a.duration), a stable sort
RECURSIVE SortByDuration(_)
SortByDuration(instances) ==
    IF Len(instances) = 0 THEN <<>>
    ELSE LET k == CHOOSE k \in 1..Len(instances) :
                    /\ \A j \in 1..Len(instances) :
                         instances[j].duration <= instances[k].duration
                    /\ \A j \in 1..(k - 1) :
                         instances[j].duration < instances[k].duration
         IN  <<instances[k]>> \o SortByDuration(RemoveAt(instances, k))

RECURSIVE SumDurations(_, _)
SumDurations(instances, i) ==
    IF i > Len(instances) THEN 0
    ELSE instances[i].duration + SumDurations(instances, i + 1)

\* the closing pass of getGhostPeriods over one participant's entry; a
\* quotient is kept as <<numerator, denominator>>
ghostEntry(e) ==
    IF e.totalGhosts > 0
    THEN LET sorted == SortByDuration(e.ghostInstances)
         IN  [totalGhosts |-> e.totalGhosts,
              longestGhost |-> e.longestGhost,
              averageGhostDuration |->
                  <<SumDurations(e.ghostInstances, 1), e.totalGhosts>>,
              ghostInstances |-> sorted,
              top5Ghosts |-> SubSeq(sorted, 1,
                                IF Len(sorted) < 5 THEN Len(sorted) ELSE 5)]
    ELSE [totalGhosts |-> e.totalGhosts,
          longestGhost |-> e.longestGhost,
          averageGhostDuration |-> <<0, 1>>,
          ghostInstances |-> e.ghostInstances]

\* getGhostPeriods
getGhostPeriods(a) ==
    LET P == SeqRange(a.participants)
        acc == ghostLoop(a.userMessages, 2,
                 [ghostPeriods |->
                     [p \in P |-> [totalGhosts |-> 0, longestGhost |-> 0,
                                   ghostInstances |-> <<>>]],
                  threw |-> FALSE])
    IN  IF acc.threw
        THEN [op |-> "getGhostPeriods", threw |-> TRUE]
        ELSE [op |-> "getGhostPeriods", threw |-> FALSE,
              ghostPeriods |-> [p \in P |-> ghostEntry(acc.ghostPeriods[p])]]

\* x.toFixed(1) for x = num / den >= 0: the decimal string, kept as its
\* number of tenths (round half up)
ToFixed1(num, den) == [fixed |-> (20 * num + den) \div (2 * den)]

\* the loop of getConversationEnders over the pairs (i, i + 1); an ender
\* that is no participant has no entry and the increment raises a TypeError
RECURSIVE enderLoop(_, _, _)
enderLoop(um, i, acc) ==
    IF i > Len(um) - 1 \/ acc.threw THEN acc
    ELSE
      LET currentMsg == um[i]
          nextMsg == um[i + 1]
          timeDiff == Diff(nextMsg.timestamp, currentMsg.timestamp)
      IN  IF timeDiff > SixHours
          THEN IF currentMsg.sender \notin DOMAIN acc.enders
               THEN [acc EXCEPT !.threw = TRUE]
               ELSE enderLoop(um, i + 1,
                      [acc EXCEPT
                         !.enders[currentMsg.sender].count = @ + 1,
                         !.totalConversationEnds = @ + 1])
          ELSE enderLoop(um, i + 1, acc)

\* getConversationEnders
getConversationEnders(a) ==
    LET P == SeqRange(a.participants)
        um == a.userMessages
        acc1 == enderLoop(um, 1,
                  [enders |-> [p \in P |-> [count |-> 0]],
                   totalConversationEnds |-> 0,
                   threw |-> FALSE])
        \* the last message in the chat also ends a conversation
        acc2 == IF acc1.threw \/ Len(um) = 0 THEN acc1
                ELSE IF um[Len(um)].sender \notin DOMAIN acc1.enders
                THEN [acc1 EXCEPT !.threw = TRUE]
                ELSE [acc1 EXCEPT
                        !.enders[um[Len(um)].sender].count = @ + 1,
                        !.totalConversationEnds = @ + 1]
    IN  IF acc2.threw
        THEN [op |-> "getConversationEnders", threw |-> TRUE]
        ELSE [op |-> "getConversationEnders", threw |-> FALSE,
              byParticipant |->
                 [p \in P |->
                    [count |-> acc2.enders[p].count,
                     percentage |->
                        IF acc2.totalConversationEnds > 0
                        THEN ToFixed1(acc2.enders[p].count * 100,
                                      acc2.totalConversationEnds)
                        ELSE [number |-> 0]]],
              totalConversations |-> acc2.totalConversationEnds]

\* the loop of getConversationInitiators
RECURSIVE initiatorLoop(_, _, _)
initiatorLoop(um, i, initiators) ==
    IF i > Len(um) THEN initiators
    ELSE
      LET msg == um[i]
      IN  IF i = 1
          THEN initiatorLoop(um, i + 1, Incr(initiators, msg.sender))
          ELSE LET prevMsg == um[i - 1]
                   timeDiff == Diff(msg.timestamp, prevMsg.timestamp)
               IN  IF timeDiff > SixHours
                   THEN initiatorLoop(um, i + 1, Incr(initiators, msg.sender))
                   ELSE initiatorLoop(um, i + 1, initiators)

\* getConversationInitiators
getConversationInitiators(a) ==
    [op |-> "getConversationInitiators",
     initiators |->
        initiatorLoop(a.userMessages, 1,
                      [p \in SeqRange(a.participants) |->
                          [n |-> 0, nan |-> FALSE]])]

\* the value is truthy: neither null (<< >>) nor the empty string
Truthy(currentSender) == currentSender # <<>> /\ currentSender[1] # ""

\* "Record the previous streak": the run of consecutiveCount messages of
\* currentSender is entered in the table; a sender that is no participant
\* has no entry and the update raises a TypeError
recordStreak(acc) ==
    IF ~(Truthy(acc.currentSender) /\ acc.consecutiveCount > 1) THEN acc
    ELSE
      LET sender == acc.currentSender[1]
          n == acc.consecutiveCount
      IN  IF sender \notin DOMAIN acc.patterns
          THEN [acc EXCEPT !.threw = TRUE]
          ELSE [acc EXCEPT
                  !.patterns[sender].totalConsecutiveMessages = @ + n,
                  !.patterns[sender].doubleTexts =
                      IF n = 2 THEN @ + 1 ELSE @,
                  !.patterns[sender].tripleTexts =
                      IF n = 3 THEN @ + 1 ELSE @,
                  !.patterns[sender].quadPlusTexts =
                      IF n >= 4 THEN @ + 1 ELSE @,
                  !.patterns[sender].longestStreak =
                      IF n > @ THEN n ELSE @]

\* the forEach of getDoubleTextingPatterns from index i on
RECURSIVE doubleTextLoop(_, _, _)
doubleTextLoop(um, i, acc) ==
    IF i > Len(um) \/ acc.threw THEN acc
    ELSE
      LET msg == um[i]
      IN  IF acc.currentSender = <<msg.sender>>
          THEN doubleTextLoop(um, i + 1,
                 [acc EXCEPT !.consecutiveCount = @ + 1])
          ELSE doubleTextLoop(um, i + 1,
                 [recordStreak(acc) EXCEPT
                    !.currentSender = <<msg.sender>>,
                    !.consecutiveCount = 1])

\* getDoubleTextingPatterns
getDoubleTextingPatterns(a) ==
    LET P == SeqRange(a.participants)
        um == a.userMessages
        acc1 == doubleTextLoop(um, 1,
                  [patterns |->
                      [p \in P |-> [doubleTexts |-> 0, tripleTexts |-> 0,
                                    quadPlusTexts |-> 0, longestStreak |-> 0,
                                    totalConsecutiveMessages |-> 0]],
                   currentSender |-> <<>>,
                   consecutiveCount |-> 0,
                   threw |-> FALSE])
        \* don't forget the last streak
        acc2 == IF acc1.threw THEN acc1 ELSE recordStreak(acc1)
        totalMessages(p) ==
            Cardinality({k \in 1..Len(um) : um[k].sender = p})
    IN  IF acc2.threw
        THEN [op |-> "getDoubleTextingPatterns", threw |-> TRUE]
        ELSE [op |-> "getDoubleTextingPatterns", threw |-> FALSE,
              patterns |->
                 [p \in P |->
                    LET e == acc2.patterns[p]
                    IN  [doubleTexts |-> e.doubleTexts,
                         tripleTexts |-> e.tripleTexts,
                         quadPlusTexts |-> e.quadPlusTexts,
                         longestStreak |-> e.longestStreak,
                         totalConsecutiveMessages |->
                             e.totalConsecutiveMessages,
                         percentage |->
                             IF totalMessages(p) = 0 THEN [nan |-> TRUE]
                             ELSE ToFixed1(e.totalConsecutiveMessages * 100,
                                           totalMessages(p)),
                         totalInstances |-> e.doubleTexts + e.tripleTexts
                                              + e.quadPlusTexts]]]

\* lines of the conversation-dynamics specification: Mon16B follows Mon10A
\* by exactly 6 hours and Mon16B1 by 6 hours and 1 second; Tue16A1 follows
\* Mon16B1 by exactly 24 hours and Mon16B by 24 hours and 1 second
T1600 == Time(16, 0, NoSec, "")
T160001 == Time(16, 0, 1, "")
T1200 == Time(12, 0, NoSec, "")
Mon10A == Hdr(<<1, 1, 2024>>, "/", T1000, "A", TRUE, "hi",
            "01/01/2024, 10:00 - A: hi")
Mon16B == Hdr(<<1, 1, 2024>>, "/", T1600, "B", TRUE, "yo",
            "01/01/2024, 16:00 - B: yo")
Mon16B1 == Hdr(<<1, 1, 2024>>, "/", T160001, "B", TRUE, "yo",
            "01/01/2024, 16:00:01 - B: yo")
Tue16A1 == Hdr(<<2, 1, 2024>>, "/", T160001, "A", TRUE, "hi",
            "02/01/2024, 16:00:01 - A: hi")
Tue16NamedSystem == Hdr(<<2, 1, 2024>>, "/", T160001, "SYSTEM", TRUE, "ok",
            "02/01/2024, 16:00:01 - SYSTEM: ok")
Mon12Joined == Hdr(<<1, 1, 2024>>, "/", T1200, NoSender, FALSE, "B joined",
            "01/01/2024, 12:00 - B joined")
\* a header whose sender field is a single blank: the sender is "" after trim
Mon10NoName == Hdr(<<1, 1, 2024>>, "/", T1000, "", TRUE, "hi",
            "01/01/2024, 10:00 -  : hi")
TalkLines == {Mon10A, Mon16B, Mon16B1, Tue16A1, Tue16NamedSystem,
              Mon12Joined, Mon10NoName}
TalkTexts == TextsOver(TalkLines, MaxChat)

\* the caller parses the text it holds, once
LoadText ==
    /\ parsed = NoResult
    /\ Parse(text)

\* analytics.getGhostPeriods() on an engine built from the result
GetGhostPeriods ==
    /\ parsed # NoResult
    /\ out' = getGhostPeriods(WhatsAppAnalytics(parsed))
    /\ UNCHANGED <<dateFormat, dateSeparator, isISOFormat, tz, text, parsed,
                   calls, app>>

\* analytics.getConversationEnders() on an engine built from the result
GetConversationEnders ==
    /\ parsed # NoResult
    /\ out' = getConversationEnders(WhatsAppAnalytics(parsed))
    /\ UNCHANGED <<dateFormat, dateSeparator, isISOFormat, tz, text, parsed,
                   calls, app>>

\* analytics.getConversationInitiators() on an engine built from the result
GetConversationInitiators ==
    /\ parsed # NoResult
    /\ out' = getConversationInitiators(WhatsAppAnalytics(parsed))
    /\ UNCHANGED <<dateFormat, dateSeparator, isISOFormat, tz, text, parsed,
                   calls, app>>

\* analytics.getDoubleTextingPatterns() on an engine built from the result
GetDoubleTextingPatterns ==
    /\ parsed # NoResult
    /\ out' = getDoubleTextingPatterns(WhatsAppAnalytics(parsed))
    /\ UNCHANGED <<dateFormat, dateSeparator, isISOFormat, tz, text, parsed,
                   calls, app>>

\* One export parsed and its conversation dynamics computed
InitDynamics == InitWith(TalkTexts)
NextDynamics ==
    \/ LoadText
    \/ GetGhostPeriods
    \/ GetConversationEnders
    \/ GetConversationInitiators
    \/ GetDoubleTextingPatterns
SpecDynamics == InitDynamics /\ [][NextDynamics]_vars

\* the adjacent pairs of user messages with different senders and more than
\* 24 hours between them, by the index of the later message
GhostPairs ==
    {i \in ResponsePairs :
        Diff(UserMessages[i].timestamp, UserMessages[i - 1].timestamp)
            > OneDay}

RECURSIVE MaxDuration(_)
MaxDuration(S) ==
    IF S = {} THEN 0
    ELSE LET i == CHOOSE i \in S : TRUE
             d == Diff(UserMessages[i].timestamp,
                       UserMessages[i - 1].timestamp)
             r == MaxDuration(S \ {i})
         IN  IF d > r THEN d ELSE r

\* C11: getGhostPeriods counts a ghost for exactly each adjacent pair of
\* user messages with different senders and strictly more than 24 hours
\* between them (24h0m0s is none, 24h0m1s is one), attributed to the sender
\* of the later message; longestGhost is that sender's longest counted gap.
C11_GhostsAreLateReplies ==
    (parsed # NoResult /\ out.op = "getGhostPeriods") =>
        /\ ~out.threw
        /\ \A i \in GhostPairs :
             UserMessages[i].sender \in DOMAIN out.ghostPeriods
        /\ \A p \in DOMAIN out.ghostPeriods :
             LET mine == {i \in GhostPairs : UserMessages[i].sender = p}
             IN  /\ out.ghostPeriods[p].totalGhosts = Cardinality(mine)
                 /\ out.ghostPeriods[p].longestGhost = MaxDuration(mine)

\* the user messages that end a conversation: the next user message follows
\* by more than 6 hours, or there is none
EnderIndexes ==
    {i \in 1..Len(UserMessages) :
        \/ i = Len(UserMessages)
        \/ Diff(UserMessages[i + 1].timestamp, UserMessages[i].timestamp)
              > SixHours}

RECURSIVE SumEnders(_, _, _)
SumEnders(byParticipant, participants, i) ==
    IF i > Len(participants) THEN 0
    ELSE byParticipant[participants[i]].count
           + SumEnders(byParticipant, participants, i + 1)

\* C12: getConversationEnders counts a user message as an ender exactly
\* when the next user message follows it by more than 6 hours or it is the
\* last one; the per-participant counts sum to totalConversations; a log
\* with a single user message reports its sender with count 1 and 100.0
\* percent and every other participant with count 0.
C12_EndersAreLastBeforeGap ==
    (parsed # NoResult /\ out.op = "getConversationEnders") =>
        /\ ~out.threw
        /\ \A i \in EnderIndexes :
             UserMessages[i].sender \in DOMAIN out.byParticipant
        /\ \A p \in DOMAIN out.byParticipant :
             out.byParticipant[p].count =
                Cardinality({i \in EnderIndexes : UserMessages[i].sender = p})
        /\ out.totalConversations = Cardinality(EnderIndexes)
        /\ SumEnders(out.byParticipant, parsed.participants, 1)
             = out.totalConversations
        /\ Len(UserMessages) = 1 =>
             \A p \in DOMAIN out.byParticipant :
                IF p = UserMessages[1].sender
                THEN out.byParticipant[p] =
                        [count |-> 1, percentage |-> [fixed |-> 1000]]
                ELSE out.byParticipant[p].count = 0

\* the user messages that start a conversation: the first one, and every one
\* that follows its predecessor by more than 6 hours
InitiatorIndexes ==
    {i \in 1..Len(UserMessages) :
        \/ i = 1
        \/ Diff(UserMessages[i].timestamp, UserMessages[i - 1].timestamp)
              > SixHours}

\* C13: getConversationInitiators credits the sender of the first user
\* message, and the sender of a later user message exactly when it follows
\* the previous user message by strictly more than 6 hours (exactly 6 hours
\* and negative gaps are no boundary).
C13_InitiatorsFollowGap ==
    (parsed # NoResult /\ out.op = "getConversationInitiators") =>
        /\ \A i \in InitiatorIndexes :
             UserMessages[i].sender \in DOMAIN out.initiators
        /\ \A p \in DOMAIN out.initiators :
             /\ ~out.initiators[p].nan
             /\ out.initiators[p].n =
                  Cardinality({i \in InitiatorIndexes :
                                 UserMessages[i].sender = p})

\* the maximal runs of consecutive user messages of one sender, as
\* <<first index, last index>>
SenderRuns ==
    {<<lo, hi>> \in (1..Len(UserMessages)) \X (1..Len(UserMessages)) :
        /\ lo <= hi
        /\ \A k \in lo..hi : UserMessages[k].sender = UserMessages[lo].sender
        /\ lo > 1 => UserMessages[lo - 1].sender # UserMessages[lo].sender
        /\ hi < Len(UserMessages) =>
             UserMessages[hi + 1].sender # UserMessages[hi].sender}

RunsOf(p, lengths) ==
    {r \in SenderRuns :
        UserMessages[r[1]].sender = p /\ (r[2] - r[1] + 1) \in lengths}

RECURSIVE SumLengths(_)
SumLengths(S) ==
    IF S = {} THEN 0
    ELSE LET r == CHOOSE r \in S : TRUE
         IN  (r[2] - r[1] + 1) + SumLengths(S \ {r})

RECURSIVE MaxLength(_)
MaxLength(S) ==
    IF S = {} THEN 0
    ELSE LET r == CHOOSE r \in S : TRUE
             m == MaxLength(S \ {r})
         IN  IF (r[2] - r[1] + 1) > m THEN r[2] - r[1] + 1 ELSE m

\* C18: getDoubleTextingPatterns classifies every maximal run of
\* consecutive user messages of one sender by its length: 2 counts as a
\* double text, 3 as a triple, 4 or more as quad-plus, 1 as nothing;
\* longestStreak is the sender's longest run of 2 or more and
\* totalConsecutiveMessages the summed length of the sender's runs of 2 or
\* more, a run that ends at the last message included.
C18_RunsClassifiedByLength ==
    (parsed # NoResult /\ out.op = "getDoubleTextingPatterns") =>
        /\ ~out.threw
        /\ \A r \in SenderRuns :
             r[2] > r[1] => UserMessages[r[1]].sender \in DOMAIN out.patterns
        /\ \A p \in DOMAIN out.patterns :
             LET e == out.patterns[p]
                 long == 2..Len(UserMessages)
             IN  /\ e.doubleTexts = Cardinality(RunsOf(p, {2}))
                 /\ e.tripleTexts = Cardinality(RunsOf(p, {3}))
                 /\ e.quadPlusTexts =
                      Cardinality(RunsOf(p, 4..Len(UserMessages)))
                 /\ e.longestStreak = MaxLength(RunsOf(p, long))
                 /\ e.totalConsecutiveMessages = SumLengths(RunsOf(p, long))

----------------------------------------------------------------------------
(* Summary *)

\* (userMessages.length / durationDays).toFixed(1): durationDays is
\* undefined on the dateRange of an empty record list
averageMessagesPerDay(a) ==
    LET n == Len(a.userMessages)
    IN  IF "durationDays" \notin DOMAIN a.dateRange THEN [nan |-> TRUE]
        ELSE IF a.dateRange.durationDays = 0
        THEN IF n = 0 THEN [nan |-> TRUE] ELSE [infinity |-> TRUE]
        ELSE ToFixed1(n, a.dateRange.durationDays)

\* getComprehensiveSummary, with the metrics that are computed from the
\* timestamps and senders of the records; the metrics computed from the
\* message text are not carried.  getHourlyActivity indexes its table by
\* every user message's sender, so the call raises a TypeError (if no
\* earlier metric did) whenever some user message's sender is no participant.
getComprehensiveSummary(a) ==
    IF \E k \in 1..Len(a.userMessages) :
          a.userMessages[k].sender \notin SeqRange(a.participants)
    THEN [threw |-> TRUE]
    ELSE
      LET responseTime == calculateResponseTimes(a)
          streaks == getConversationStreaks(a)
          enders == getConversationEnders(a)
      IN  [threw |-> FALSE,
           overview |->
              [totalMessages |-> Len(a.messages),
               userMessages |-> Len(a.userMessages),
               participants |-> a.participants,
               dateRange |-> a.dateRange,
               averageMessagesPerDay |-> averageMessagesPerDay(a)],
           messagingPatterns |->
              [responseTime |->
                  [distribution |-> responseTime.distribution,
                   byHourBySender |-> responseTime.byHourBySender],
               conversationInitiators |->
                  getConversationInitiators(a).initiators],
           engagementMetrics |->
              [conversationStreaks |->
                  [longestStreak |-> streaks.longestStreak,
                   totalStreaks |-> streaks.totalStreaks,
                   top5Streaks |-> streaks.top5Streaks],
               doubleTextingPatterns |->
                  getDoubleTextingPatterns(a).patterns,
               ghostPeriods |-> getGhostPeriods(a).ghostPeriods,
               conversationEnders |->
                  [byParticipant |-> enders.byParticipant,
                   totalConversations |-> enders.totalConversations]]]

----------------------------------------------------------------------------
(* Application handlers *)

MaxSteps == 3        \* parse calls made by the application's handlers

\* JSON.parse(JSON.stringify(parsedData)): every Date becomes the string of
\* its UTC instant
JsonCopy(r) ==
    LET iso(date) == [iso |-> date]
        range == r.dateRange
    IN  [r EXCEPT
           !.messages = [i \in 1..Len(r.messages) |->
                            [r.messages[i] EXCEPT !.timestamp = iso(@)]],
           !.dateRange =
               [range EXCEPT
                  !.start = [i \in 1..Len(range.start) |-> iso(range.start[i])],
                  !.end = [i \in 1..Len(range.end) |-> iso(range.end[i])]]]

\* isDateInRange
isDateInRange(date, dateFilter) ==
    IF ~dateFilter.isActive THEN TRUE
    ELSE /\ ~Before(date, dateFilter.startDate[1])
         /\ ~Before(dateFilter.endDate[1], date)

\* the loop of filterTextByDateRange: a raw line that matches any message or
\* system pattern (no colon test) carries a date, parsed with the date order
\* the parser instance holds
RECURSIVE filterLoop(_, _, _, _, _, _)
filterLoop(lines, i, st, dateFilter, format, zone) ==
    IF i > Len(lines) THEN st
    ELSE
      LET line == lines[i]
          matched == Anchored(line)
          lineDate == parseTimestamp(line.p, line.time, format, zone)
          st1 == IF matched
                 THEN [st EXCEPT
                         !.currentMessageDate = <<lineDate>>,
                         !.isInRange = isDateInRange(lineDate, dateFilter)]
                 ELSE st
          keep == IF matched THEN st1.isInRange
                  ELSE st1.isInRange /\ st1.currentMessageDate # <<>>
      IN  filterLoop(lines, i + 1,
                     IF keep
                     THEN [st1 EXCEPT !.filteredLines = Append(@, line)]
                     ELSE st1,
                     dateFilter, format, zone)

\* filterTextByDateRange: the kept lines joined by line breaks; the empty
\* string is the text of one empty line
filterTextByDateRange(lines, dateFilter, format, zone) ==
    LET st == filterLoop(lines, 1,
                         [filteredLines |-> <<>>,
                          currentMessageDate |-> <<>>,
                          isInRange |-> FALSE],
                         dateFilter, format, zone)
    IN  IF st.filteredLines = <<>> THEN <<BlankLine>> ELSE st.filteredLines

\* F applied to the value of v, v computed once
Once(v, F(_)) == CHOOSE y \in {F(x) : x \in {v}} : TRUE

\* renderAnalytics after this.analytics = new WhatsAppAnalytics(parsedData):
\* a summary that raises leaves the page as it was
render(a) ==
    LET show(engine) ==
          LET summary == getComprehensiveSummary(engine)
          IN  [a EXCEPT !.analytics = engine,
                        !.rendered = IF summary.threw THEN @ ELSE summary]
    IN  Once(WhatsAppAnalytics(a.parsedData), show)

\* the outcome of a handler: the application, the parser instance and the
\* results of the parse calls it made
Outcome(a, self, parses) == [app |-> a, self |-> self, parses |-> parses]

\* the lines of the files the user holds, and the days of the date inputs
MaxFile == 3         \* lines per file
SampleChat == <<Mon10A, Mon12Joined, Plain, Mon16B, Tue16A1,
                Tue16NamedSystem>>
\* the lines of chat at the positions S, in their order
Excerpt(chat, S) ==
    [k \in 1..Cardinality(S) |-> chat[SortedKeys(S)[k]]]
\* the files: every excerpt of 1..MaxFile lines of the sample chat
FileTexts ==
    {Excerpt(SampleChat, S) :
        S \in {T \in SUBSET (1..Len(SampleChat)) :
                 T # {} /\ Cardinality(T) <= MaxFile}}
FilterDays == {DaysFromCivil(2024, 1, 1), DaysFromCivil(2024, 1, 2)}

NoMessagesFound ==
    "Error processing file: No messages found in the file. Please check the file format."

\* processFile(file) for a .txt file whose text is fileText
processFile(a, fileText, self, zone) ==
    LET load(r) ==
          LET a1 == [a EXCEPT !.originalRawText = fileText,
                              !.parsedData = r.result,
                              !.originalParsedData = JsonCopy(r.result),
                              !.handler = "processFile"]
              summary == getComprehensiveSummary(WhatsAppAnalytics(r.result))
              a2 == IF Len(r.result.messages) = 0
                    THEN [a1 EXCEPT !.error = NoMessagesFound]
                    ELSE IF summary.threw
                    THEN [render(a1) EXCEPT
                            !.error = "Error processing file: TypeError"]
                    ELSE render(a1)
          IN  Outcome(a2, r.self, <<r.result>>)
    IN  Once(parse(fileText, self, zone), load)

\* applyFilterToData with a filter that re-filters the text of the view shown
applyFilterToData_ofView(a, self, zone) ==
    IF ~a.dateFilter.isActive \/ a.originalRawText = NoText
    THEN Outcome(a, self, <<>>)
    ELSE
      LET view(r) ==
            Outcome([a EXCEPT !.parsedData = r.result], r.self, <<r.result>>)
          reparse(filteredText) == Once(parse(filteredText, self, zone), view)
      IN  Once(filterTextByDateRange(a.parsedData.rawContent,
                                     a.dateFilter, self.dateFormat, zone),
               reparse)

\* applyFilterToData
applyFilterToData(a, self, zone) ==
    IF ~a.dateFilter.isActive \/ a.originalRawText = NoText
    THEN Outcome(a, self, <<>>)
    ELSE
      LET view(r) ==
            Outcome([a EXCEPT !.parsedData = r.result], r.self, <<r.result>>)
          reparse(filteredText) == Once(parse(filteredText, self, zone), view)
      IN  Once(filterTextByDateRange(a.originalRawText,
                                     a.dateFilter, self.dateFormat, zone),
               reparse)

\* applyDateFilter with the date inputs holding startDate and endDate (day
\* numbers; NoDay for an empty input)
applyDateFilter(a, startDate, endDate, self, zone) ==
    IF a.originalParsedData = NoResult
    THEN Outcome([a EXCEPT
                    !.error = "Date filter inputs not found or no data loaded",
                    !.handler = "applyDateFilter: showError"], self, <<>>)
    ELSE IF startDate = NoDay \/ endDate = NoDay
    THEN Outcome([a EXCEPT
                    !.error = "Please select both start and end dates",
                    !.handler = "applyDateFilter: showError"], self, <<>>)
    ELSE IF startDate > endDate
    THEN Outcome([a EXCEPT
                    !.error = "Start date must be before end date",
                    !.handler = "applyDateFilter: showError"], self, <<>>)
    ELSE
      LET a1 == [a EXCEPT
                   !.dateFilter =
                       [startDate |-> <<[d |-> startDate, s |-> 0]>>,
                        endDate |->
                           <<ToInstant([d |-> endDate, s |-> 86399], zone)>>,
                        isActive |-> TRUE],
                   !.handler = "applyDateFilter"]
          show(f) == Outcome(render(f.app), f.self, f.parses)
      IN  Once(applyFilterToData(a1, self, zone), show)

\* resetDateFilter, with a text loaded
resetDateFilter(a, self, zone) ==
    LET a1 == [a EXCEPT
                 !.dateFilter = [startDate |-> <<>>, endDate |-> <<>>,
                                 isActive |-> FALSE],
                 !.handler = "resetDateFilter"]
        show(r) == Outcome(render([a1 EXCEPT !.parsedData = r.result]),
                           r.self, <<r.result>>)
    IN  Once(parse(a.originalRawText, self, zone), show)

\* the handler's outcome becomes the state
Commit(h) ==
    /\ app' = h.app
    /\ dateFormat' = h.self.dateFormat
    /\ dateSeparator' = h.self.dateSeparator
    /\ isISOFormat' = h.self.isISOFormat
    /\ parsed' = IF h.parses = <<>> THEN parsed ELSE h.parses[Len(h.parses)]
    /\ calls' = calls + Len(h.parses)
    /\ UNCHANGED <<tz, text, out>>

\* the user drops the file whose text is text
ProcessFile ==
    /\ calls < MaxSteps
    /\ \E h \in {processFile(app, text, parser, tz)} : Commit(h)

\* the user sets the two date inputs and presses "apply"
ApplyDateFilter ==
    /\ calls < MaxSteps
    /\ \E startDate, endDate \in FilterDays \cup {NoDay} :
         \E h \in {applyDateFilter(app, startDate, endDate, parser, tz)} :
            Commit(h)

\* the user presses "reset"; with no text loaded parse(null) raises before
\* anything is assigned
ResetDateFilter ==
    /\ calls < MaxSteps
    /\ app.originalRawText # NoText
    /\ \E h \in {resetDateFilter(app, parser, tz)} : Commit(h)

\* One page: files loaded, date filters applied and reset
InitApp == InitWith(FileTexts)
NextApp == ProcessFile \/ ApplyDateFilter \/ ResetDateFilter
SpecApp == InitApp /\ [][NextApp]_vars

\* C15: after every parse the caller makes (file load, date filter, filter
\* reset) a result of zero records is reported as a failure, and no
\* analytics engine is built or rendered from the empty result.
C15_EmptyResultIsRefused ==
    [][(calls' > calls /\ Len(app'.parsedData.messages) = 0) =>
          /\ app'.error = NoMessagesFound
          /\ app'.analytics = app.analytics
          /\ app'.rendered = app.rendered]_vars

\* the keys of a summary: of the overview and its dateRange, and of every
\* participant's entry of the per-participant metrics
Shape(s) ==
    LET keys(table) == [p \in DOMAIN table |-> DOMAIN table[p]]
    IN  [overview |-> DOMAIN s.overview,
         dateRange |-> DOMAIN s.overview.dateRange,
         conversationInitiators |->
            DOMAIN s.messagingPatterns.conversationInitiators,
         byHourBySender |->
            DOMAIN s.messagingPatterns.responseTime.byHourBySender,
         conversationStreaks |-> DOMAIN s.engagementMetrics.conversationStreaks,
         doubleTextingPatterns |->
            keys(s.engagementMetrics.doubleTextingPatterns),
         ghostPeriods |-> keys(s.engagementMetrics.ghostPeriods),
         conversationEnders |->
            keys(s.engagementMetrics.conversationEnders.byParticipant)]

\* C16: for a fixed participant list the summary has the same keys at every
\* level whatever the record list is: the summary rendered for a view has
\* the keys of the summary of the loaded file whenever both have the same
\* participant list, the ghostPeriods entries and the overview dateRange
\* included.
C16_SummaryShapeIsStable ==
    (app.rendered # NoSummary /\ app.originalRawText # NoText) =>
        LET r0 == parse(app.originalRawText, NewParser, tz).result
            s0 == getComprehensiveSummary(WhatsAppAnalytics(r0))
        IN  (~s0.threw /\ r0.participants = app.rendered.overview.participants)
               => Shape(s0) = Shape(app.rendered)

Formats == {"DD/MM/YYYY", "MM/DD/YYYY", "YYYY-MM-DD"}

\* the text keeps some of the lines of full, in their order, or is empty
IsSlice(lines, full) ==
    \/ lines = <<BlankLine>>
    \/ \E S \in SUBSET (1..Len(full)) : S # {} /\ lines = Excerpt(full, S)

\* C17: once a file is loaded, applying and resetting date filters leaves
\* the stored raw text and the stored copy of its ParseResult as the load
\* left them; the view shown is always a fresh parse of lines kept from the
\* stored raw text (after a filter: of the lines filterTextByDateRange keeps
\* of it), and after a reset it is the parse of the loaded text.
C17_OriginalsAreKept ==
    app.originalRawText # NoText =>
        LET original == parse(text, NewParser, tz).result
            view == app.parsedData
        IN  /\ app.originalRawText = text
            /\ app.originalParsedData = JsonCopy(original)
            /\ view = parse(view.rawContent, NewParser, tz).result
            /\ IsSlice(view.rawContent, app.originalRawText)
            /\ app.handler = "applyDateFilter" =>
                 \E format \in Formats :
                    view.rawContent =
                       filterTextByDateRange(app.originalRawText,
                                             app.dateFilter, format, tz)
            /\ app.handler = "resetDateFilter" => view = original

\* a filtered view that shows some but not all records of the loaded file,
\* reached after an earlier filter or reset, with the originals intact
C17_Witness ==
    /\ app.handler = "applyDateFilter"
    /\ calls = 3
    /\ app.dateFilter.isActive
    /\ Len(app.parsedData.messages) > 0
    /\ Len(app.parsedData.messages) < Len(app.originalParsedData.messages)
    /\ app.originalRawText = text
    /\ Len(text) = 3

----------------------------------------------------------------------------
(* Participants and system headers *)

Range(seq) == {seq[i] : i \in 1..Len(seq)}

\* the senders of the records that are no system records, each once, in the
\* order of their first record
RECURSIVE FirstSenders(_, _, _)
FirstSenders(messages, i, acc) ==
    IF i > Len(messages) THEN acc
    ELSE LET m == messages[i]
         IN  FirstSenders(messages, i + 1,
                IF ~m.isSystem /\ m.sender \notin Range(acc)
                THEN Append(acc, m.sender) ELSE acc)

\* C19: the participants of a parse result are the distinct senders of its
\* non-system records, each exactly once, in the order of each sender's
\* first record, and the SYSTEM sentinel is never one of them.
C19_ParticipantsAreSenders ==
    parsed # NoResult =>
        /\ parsed.participants = FirstSenders(parsed.messages, 1, <<>>)
        /\ "SYSTEM" \notin Range(parsed.participants)

\* the line, trimmed, is a timestamp followed by text without a sender
\* field and without a colon
OpensSystemRecord(raw) ==
    LET l == Trim(raw)
    IN  l.form = "hdr" /\ l.sender = NoSender /\ ~l.colon
\* the line, trimmed, is a timestamp no message grammar accepts, followed
\* by text with a colon
ColonRejected(raw) ==
    LET l == Trim(raw)
    IN  l.form = "hdr" /\ l.sender = NoSender /\ l.colon
\* the same characters read as a line without a timestamp
AsText(raw) == [TextLine(raw.txt) EXCEPT !.lead = raw.lead, !.cr = raw.cr]
IsSystemRecord(m) == m.isSystem

\* C20: the system records of a parse result are opened by exactly the
\* lines that match no message grammar and a system grammar whose trailing
\* text has no colon, one record per such line in order; a timestamp line
\* rejected for a colon in its trailing text is handled as a line without a
\* timestamp: appended to the open record, or dropped when none is open.
C20_SystemHeaderNeedsNoColon ==
    parsed # NoResult =>
        LET sys == SelectSeq(parsed.messages, IsSystemRecord)
            opening == SelectSeq(text, OpensSystemRecord)
        IN  /\ Len(sys) = Len(opening)
            /\ \A i \in 1..Len(sys) :
                  /\ sys[i].sender = "SYSTEM"
                  /\ sys[i].content[1] = opening[i].content
            /\ \A k \in 1..Len(text) :
                  ColonRejected(text[k]) =>
                     LET alt == parse([text EXCEPT ![k] = AsText(text[k])],
                                      NewParser, tz).result
                     IN  /\ alt.messages = parsed.messages
                         /\ alt.participants = parsed.participants
                         /\ alt.dateRange = parsed.dateRange

\* a rejected timestamp line appended to the open record, then a line that
\* opens a system record
C20_Witness ==
    /\ parsed # NoResult
    /\ text = <<MsgA, SysColon, SysJoined>>
    /\ Len(parsed.messages) = 2
    /\ parsed.messages[1].content = <<"hi", "\n", SysColon.txt>>
    /\ parsed.messages[2].isSystem
    /\ parsed.messages[2].content = <<"B joined">>

\* getMessageCountByParticipant().counts
getMessageCountByParticipant(a) ==
    LET zero == [p \in SeqRange(a.participants) |-> [n |-> 0, nan |-> FALSE]]
    IN  [op |-> "getMessageCountByParticipant",
         counts |-> countBySender(a.userMessages, 1, zero)]

\* C23: in every parse result the sender of each non-system record is a
\* participant and each participant is the sender of some non-system
\* record; so the per-participant count table of the analytics engine has
\* a number for each user message's sender and no participant's count is 0.
C23_SendersAreParticipants ==
    parsed # NoResult =>
        LET counts == getMessageCountByParticipant(
                          WhatsAppAnalytics(parsed)).counts
        IN  /\ \A i \in 1..Len(parsed.messages) :
                 ~parsed.messages[i].isSystem =>
                     /\ parsed.messages[i].sender \in Range(parsed.participants)
                     /\ ~counts[parsed.messages[i].sender].nan
            /\ \A p \in Range(parsed.participants) :
                 /\ \E i \in 1..Len(parsed.messages) :
                       /\ ~parsed.messages[i].isSystem
                       /\ parsed.messages[i].sender = p
                 /\ counts[p].n > 0

----------------------------------------------------------------------------
(* Calendar days of the analytics *)

\* C30: the day under which getConversationStreaks and getMessageFrequency
\* file a user message (the date part of toISOString) is the calendar day
\* of the record's own decomposition (year, month, day of month), and two
\* user messages share a streak day exactly when they share that calendar
\* day, whatever the time-zone offset of the host.
C30_StreakDayIsRecordDay ==
    (parsed # NoResult /\ out.op = "getConversationStreaks") =>
        /\ \A i \in 1..Len(UserMessages) :
             IsoDateKey(UserMessages[i].timestamp) = UserMessages[i].day
        /\ \A i, j \in 1..Len(UserMessages) :
             IsoDateKey(UserMessages[i].timestamp)
                 = IsoDateKey(UserMessages[j].timestamp)
               <=> UserMessages[i].day = UserMessages[j].day

----------------------------------------------------------------------------
(* Header lines of the two passes *)

\* the line as it stands in the raw text matches a header grammar, which is
\* what detectDateFormat asks of it
SeenByInference(raw) ==
    tryParseMessage(raw).success \/ tryParseSystemMessage(raw).success

TrimAll(t) == [k \in 1..Len(t) |-> Trim(t[k])]

\* C29: within one parse call the date-order inference and the main pass
\* recognise the same lines as headers, also when the raw line carries
\* leading or trailing whitespace or a trailing carriage return; so the
\* inferred order is the one inferred from the lines as the main pass reads
\* them.
C29_SameHeadersInBothPasses ==
    parsed # NoResult =>
        /\ \A k \in 1..Len(text) :
              SeenByInference(text[k]) <=> IsHeaderLine(text[k])
        /\ dateFormat = detectDateFormat(TrimAll(text), NewParser).format

----------------------------------------------------------------------------
(* Relations between the metrics *)

RECURSIVE SumTotalGhosts(_, _, _)
SumTotalGhosts(ghostPeriods, participants, i) ==
    IF i > Len(participants) THEN 0
    ELSE ghostPeriods[participants[i]].totalGhosts
           + SumTotalGhosts(ghostPeriods, participants, i + 1)

RECURSIVE SumBuckets(_, _)
SumBuckets(distribution, b) ==
    IF b > 7 THEN 0 ELSE distribution[b] + SumBuckets(distribution, b + 1)

\* C27: the 'Over 24 hrs' bucket of the response-time histogram counts as
\* many response events as the participants' totalGhosts add up to, and the
\* seven buckets together count every response event exactly once.
C27_LastBucketCountsGhosts ==
    (parsed # NoResult /\ out.op = "getGhostPeriods") =>
        LET times == calculateResponseTimes(WhatsAppAnalytics(parsed))
        IN  /\ ~out.threw
            /\ ~times.threw
            /\ times.distribution[7] =
                  SumTotalGhosts(out.ghostPeriods, parsed.participants, 1)
            /\ SumBuckets(times.distribution, 1) = Cardinality(ResponsePairs)

\* the loop of getConversationGaps: the gaps of more than six hours between
\* adjacent user messages
RECURSIVE gapLoop(_, _, _)
gapLoop(um, i, gaps) ==
    IF i > Len(um) THEN gaps
    ELSE LET gap == Diff(um[i].timestamp, um[i - 1].timestamp)
         IN  gapLoop(um, i + 1,
                IF gap > SixHours
                THEN Append(gaps, [duration |-> gap,
                                   start |-> um[i - 1].timestamp,
                                   end |-> um[i].timestamp])
                ELSE gaps)

\* getConversationGaps
getConversationGaps(a) ==
    LET gaps == SortByDuration(gapLoop(a.userMessages, 2, <<>>))
    IN  [op |-> "getConversationGaps",
         count |-> Len(gaps),
         longestGap |-> IF Len(gaps) > 0 THEN <<gaps[1]>> ELSE <<>>,
         top10Gaps |-> SubSeq(gaps, 1, IF Len(gaps) < 10 THEN Len(gaps)
                                       ELSE 10)]

\* the loop of getAverageMessagesPerConversation
RECURSIVE conversationLoop(_, _, _)
conversationLoop(um, i, conversationCount) ==
    IF i > Len(um) THEN conversationCount
    ELSE conversationLoop(um, i + 1,
            IF Diff(um[i].timestamp, um[i - 1].timestamp) > SixHours
            THEN conversationCount + 1 ELSE conversationCount)

\* getAverageMessagesPerConversation, with the count it divides by
getAverageMessagesPerConversation(a) ==
    LET conversationCount == conversationLoop(a.userMessages, 2, 1)
    IN  [op |-> "getAverageMessagesPerConversation",
         conversationCount |-> conversationCount,
         average |-> ToFixed1(Len(a.userMessages), conversationCount)]

RECURSIVE SumInitiators(_, _, _)
SumInitiators(initiators, participants, i) ==
    IF i > Len(participants) THEN 0
    ELSE initiators[participants[i]].n
           + SumInitiators(initiators, participants, i + 1)

\* C28: for a record list with at least one user message the conversation
\* boundaries agree in all four metrics: the initiations summed over the
\* participants, the total of conversation enders, the conversation count
\* of getAverageMessagesPerConversation and one plus the number of
\* conversation gaps are the same number.
C28_BoundaryMetricsAgree ==
    (parsed # NoResult /\ out.op = "getConversationInitiators"
        /\ Len(UserMessages) > 0) =>
        LET engine == WhatsAppAnalytics(parsed)
            enders == getConversationEnders(engine)
            conversations ==
                getAverageMessagesPerConversation(engine).conversationCount
            gaps == getConversationGaps(engine).count
        IN  /\ \A p \in DOMAIN out.initiators : ~out.initiators[p].nan
            /\ ~enders.threw
            /\ SumInitiators(out.initiators, parsed.participants, 1)
                 = conversations
            /\ enders.totalConversations = conversations
            /\ conversations = 1 + gaps

----------------------------------------------------------------------------
(* Best time to message *)

MaxSkip == 2         \* lines left out of the sample exchange

\* an average kept as <<sum, count>>: x is the smaller average
MeanLess(x, y) == x[1] * y[2] < y[1] * x[2]

RECURSIVE SumTimes(_, _)
SumTimes(times, i) ==
    IF i > Len(times) THEN 0 ELSE times[i] + SumTimes(times, i + 1)

NoFastest == [infinity |-> TRUE]

\* the loop of getBestTimeToMessage over the hours of one participant;
\* hourlyAverages keeps its entries in key order
RECURSIVE hourLoop(_, _, _)
hourLoop(byHour, hour, acc) ==
    IF hour >= 24 THEN acc
    ELSE
      LET times == byHour[hour]
          avgTime == <<SumTimes(times, 1), Len(times)>>
      IN  IF Len(times) >= 3
          THEN hourLoop(byHour, hour + 1,
                 [hourlyAverages |->
                     Append(acc.hourlyAverages,
                            [hour |-> hour, average |-> avgTime,
                             count |-> Len(times)]),
                  fastestHour |->
                     IF acc.fastestTime = NoFastest
                          \/ MeanLess(avgTime, acc.fastestTime)
                     THEN <<hour>> ELSE acc.fastestHour,
                  fastestTime |->
                     IF acc.fastestTime = NoFastest
                          \/ MeanLess(avgTime, acc.fastestTime)
                     THEN avgTime ELSE acc.fastestTime])
          ELSE hourLoop(byHour, hour + 1, acc)

\* Object.entries(hourlyAverages).sort((a, b) => a[1].average -
\* b[1].average), a stable sort
RECURSIVE SortByAverage(_)
SortByAverage(entries) ==
    IF Len(entries) = 0 THEN <<>>
    ELSE LET k == CHOOSE k \in 1..Len(entries) :
                    /\ \A j \in 1..Len(entries) :
                         ~MeanLess(entries[j].average, entries[k].average)
                    /\ \A j \in 1..(k - 1) :
                         MeanLess(entries[k].average, entries[j].average)
         IN  <<entries[k]>> \o SortByAverage(RemoveAt(entries, k))

\* getBestTimeToMessage(responseTimesByHourBySender)
getBestTimeToMessage(a, responseTimesByHourBySender) ==
    [op |-> "getBestTimeToMessage",
     threw |-> FALSE,
     bestTimes |->
        [p \in SeqRange(a.participants) |->
            LET acc == hourLoop(responseTimesByHourBySender[p], 0,
                          [hourlyAverages |-> <<>>, fastestHour |-> <<>>,
                           fastestTime |-> NoFastest])
                sortedHours == SortByAverage(acc.hourlyAverages)
                n == IF Len(sortedHours) < 3 THEN Len(sortedHours) ELSE 3
            IN  [bestHour |-> acc.fastestHour,
                 bestTime |-> acc.fastestTime,
                 hourlyAverages |-> acc.hourlyAverages,
                 top3Hours |->
                    [k \in 1..n |->
                        [hour |-> sortedHours[k].hour,
                         averageResponseTime |-> sortedHours[k].average,
                         sampleSize |-> sortedHours[k].count]]]]]

\* getMessagingPatterns().bestTimeToMessage: the table comes from
\* calculateResponseTimes, which may raise
bestTimeToMessage(a) ==
    LET rank(responseTime) ==
          IF responseTime.threw
          THEN [op |-> "getBestTimeToMessage", threw |-> TRUE]
          ELSE getBestTimeToMessage(a, responseTime.byHourBySender)
    IN  Once(calculateResponseTimes(a), rank)

Pad2(n) == IF n < 10 THEN "0" \o ToString(n) ELSE ToString(n)
\* the message line "dd/01/2024, hh:mm - sender: hi"
Turn(day, h, m, sender) ==
    Hdr(<<day, 1, 2024>>, "/", Time(h, m, NoSec, ""), sender, TRUE, "hi",
        Pad2(day) \o "/01/2024, " \o Pad2(h) \o ":" \o Pad2(m) \o " - "
            \o sender \o ": hi")

\* an exchange of A and B: B answers within ten minutes in hour 10 of the
\* first day and within one minute in hour 14 of the second
SampleExchange ==
    <<Turn(1, 10, 0, "A"), Turn(1, 10, 10, "B"), Turn(1, 10, 11, "A"),
      Turn(1, 10, 21, "B"), Turn(1, 10, 22, "A"), Turn(1, 10, 32, "B"),
      Turn(2, 14, 0, "A"), Turn(2, 14, 1, "B"), Turn(2, 14, 2, "A"),
      Turn(2, 14, 3, "B"), Turn(2, 14, 4, "A"), Turn(2, 14, 5, "B")>>
\* the exchange with at most MaxSkip lines left out, as it stands or
\* followed by a message of a sender named SYSTEM
ExchangeTexts ==
    LET kept == {Excerpt(SampleExchange, (1..Len(SampleExchange)) \ S) :
                   S \in {T \in SUBSET (1..Len(SampleExchange)) :
                            Cardinality(T) <= MaxSkip}}
    IN  kept \cup {Append(t, Turn(2, 14, 6, "SYSTEM")) : t \in kept}

\* getBestTimeToMessage as getMessagingPatterns calls it, on an engine built
\* from the result
GetBestTimeToMessage ==
    /\ parsed # NoResult
    /\ out' = bestTimeToMessage(WhatsAppAnalytics(parsed))
    /\ UNCHANGED <<dateFormat, dateSeparator, isISOFormat, tz, text, parsed,
                   calls, app>>

\* One export parsed and its best hours ranked
InitBestTime == InitWith(ExchangeTexts)
NextBestTime == LoadText \/ GetBestTimeToMessage
SpecBestTime == InitBestTime /\ [][NextBestTime]_vars

\* the response events of participant p filed under hour h: the later
\* message is p's, the preceding message was sent in hour h
Samples(p, h) ==
    {i \in ResponsePairs :
        UserMessages[i].sender = p /\ UserMessages[i - 1].hour = h}
RECURSIVE SumLatency(_)
SumLatency(S) ==
    IF S = {} THEN 0
    ELSE LET i == CHOOSE i \in S : TRUE
         IN  Diff(UserMessages[i].timestamp, UserMessages[i - 1].timestamp)
               + SumLatency(S \ {i})
Eligible(p) == {h \in 0..23 : Cardinality(Samples(p, h)) >= 3}
Average(p, h) == <<SumLatency(Samples(p, h)), Cardinality(Samples(p, h))>>

\* C22: for each participant getBestTimeToMessage ranks exactly the hours
\* with at least 3 response samples, a sample being filed under the hour
\* of the preceding message; top3Hours holds the (up to three) eligible
\* hours of lowest average latency, in ascending order of average, each
\* with its sample size; bestHour is the hour of the first entry and null
\* when no hour is eligible.
C22_BestHoursAreRanked ==
    (parsed # NoResult /\ out.op = "getBestTimeToMessage") =>
        /\ ~out.threw
        /\ \A p \in Range(parsed.participants) :
             LET top == out.bestTimes[p].top3Hours
                 hours == {top[k].hour : k \in 1..Len(top)}
             IN  /\ Len(top) = IF Cardinality(Eligible(p)) < 3
                               THEN Cardinality(Eligible(p)) ELSE 3
                 /\ Cardinality(hours) = Len(top)
                 /\ \A k \in 1..Len(top) :
                      /\ top[k].hour \in Eligible(p)
                      /\ top[k].sampleSize = Cardinality(Samples(p, top[k].hour))
                      /\ top[k].averageResponseTime = Average(p, top[k].hour)
                 /\ \A k \in 1..(Len(top) - 1) :
                      ~MeanLess(top[k + 1].averageResponseTime,
                                top[k].averageResponseTime)
                 /\ \A h \in Eligible(p) \ hours : \A k \in 1..Len(top) :
                      ~MeanLess(Average(p, h), top[k].averageResponseTime)
                 /\ out.bestTimes[p].bestHour =
                      IF Eligible(p) = {} THEN <<>> ELSE <<top[1].hour>>

----------------------------------------------------------------------------
(* The fixed-pattern parser *)

\* The second WhatsAppParser class has one message pattern and one system
\* pattern: a date of three components separated by "/", the first two of
\* one or two digits and the year of two to four, an optional bracket and
\* an optional hyphen or en dash. (The lines of the model use the hyphen.)
FixedDate(line) ==
    /\ Anchored(line)
    /\ line.sep = "/"
    /\ line.p[1] < 100 /\ line.p[2] < 100
    /\ line.p[3] >= 10 /\ line.p[3] < 10000
\* line.match(this.messagePattern)
messagePattern(line) == FixedDate(line) /\ line.sender # NoSender
\* line.match(this.systemMessagePattern)
systemMessagePattern(line) == FixedDate(line)

\* detectDateFormat of the fixed-pattern parser, one iteration and its break
RECURSIVE detectLoopFixed(_, _, _)
detectLoopFixed(lines, i, acc) ==
    IF i > Len(lines) THEN acc
    ELSE
      LET line == lines[i]
          match == messagePattern(line) \/ systemMessagePattern(line)
          a1 == IF match
                THEN [isMMDD |-> acc.isMMDD \/ line.p[2] > 12,
                      isDDMM |-> acc.isDDMM \/ line.p[1] > 12]
                ELSE acc
      IN  IF a1.isMMDD \/ a1.isDDMM THEN a1
          ELSE detectLoopFixed(lines, i + 1, a1)

\* detectDateFormat of the fixed-pattern parser
detectDateFormatFixed(lines) ==
    LET acc == detectLoopFixed(lines, 1, [isMMDD |-> FALSE, isDDMM |-> FALSE])
    IN  IF acc.isMMDD /\ ~acc.isDDMM THEN "MM/DD/YYYY"
        ELSE IF acc.isDDMM /\ ~acc.isMMDD THEN "DD/MM/YYYY"
        ELSE "DD/MM/YYYY"

\* one iteration of the main loop of parse of the fixed-pattern parser;
\* processMessage and parseTimestamp are those of the other class without
\* the YYYY-MM-DD branch, which no order inferred here takes
parseLineFixed(st, raw, format, zone) ==
    LET line == Trim(raw)
    IN  IF line.form = "blank" THEN st
        ELSE IF messagePattern(line)
        THEN [flush(st, format, zone) EXCEPT
                !.cur = [p |-> line.p, time |-> line.time,
                         sender |-> line.sender,
                         content |-> <<line.content>>,
                         isSystem |-> FALSE]]
        ELSE IF systemMessagePattern(line) /\ ~TrailingHasColon(line)
        THEN [flush(st, format, zone) EXCEPT
                !.cur = [p |-> line.p, time |-> line.time,
                         sender |-> "SYSTEM",
                         content |-> <<line.content>>,
                         isSystem |-> TRUE]]
        ELSE IF st.cur # NoMsg
        THEN [st EXCEPT !.cur.content = st.cur.content \o <<"\n", line.txt>>]
        ELSE st

RECURSIVE parseLoopFixed(_, _, _, _, _)
parseLoopFixed(lines, i, st, format, zone) ==
    IF i > Len(lines) THEN flush(st, format, zone)
    ELSE parseLoopFixed(lines, i + 1,
                        parseLineFixed(st, lines[i], format, zone),
                        format, zone)

\* parse of the fixed-pattern parser, with the date order it leaves in
\* this.dateFormat
parseFixed(fileContent, zone) ==
    LET format == detectDateFormatFixed(fileContent)
        st == parseLoopFixed(fileContent, 1,
                             [messages |-> <<>>, participants |-> <<>>,
                              cur |-> NoMsg],
                             format, zone)
    IN  [op |-> "parseFixed",
         dateFormat |-> format,
         result |-> [messages |-> st.messages,
                     participants |-> st.participants,
                     totalMessages |-> Len(st.messages),
                     dateRange |-> getDateRange(st.messages),
                     rawContent |-> fileContent]]

\* lines of the two-parser specification
HighFirst == Hdr(<<45, 1, 2024>>, "/", T1000, "A", TRUE, "hi",
            "45/01/2024, 10:00 - A: hi")
TwoParserLines == {DayFirst, MonthFirst, Ambiguous, IsoDate, HighFirst,
                   SysJoined, SysColon, Plain}
TwoParserTexts == TextsOver(TwoParserLines, MaxLines)

\* the fixed-pattern parser parses the text the other parser was given
ParseFixed ==
    /\ parsed # NoResult
    /\ out' = parseFixed(text, tz)
    /\ UNCHANGED <<dateFormat, dateSeparator, isISOFormat, tz, text, parsed,
                   calls, app>>

\* One export parsed by both parsers
InitTwoParsers == InitWith(TwoParserTexts)
NextTwoParsers == LoadText \/ ParseFixed
SpecTwoParsers == InitTwoParsers /\ [][NextTwoParsers]_vars

\* the fixed-pattern parser opens a record from the line
IsFixedHeader(raw) ==
    LET line == Trim(raw)
    IN  \/ messagePattern(line)
        \/ systemMessagePattern(line) /\ ~TrailingHasColon(line)

\* C21: on every input whose header lines are all lines the fixed-pattern
\* parser recognises, the multi-grammar parser infers the same date order
\* and produces the same records (timestamp, sender, content, isSystem) and
\* the same participants as the fixed-pattern parser.
C21_FixedParserIsSubset ==
    (parsed # NoResult /\ out.op = "parseFixed"
        /\ \A k \in 1..Len(text) :
              IsHeaderLine(text[k]) => IsFixedHeader(text[k])) =>
        /\ dateFormat = out.dateFormat
        /\ parsed.messages = out.result.messages
        /\ parsed.participants = out.result.participants

----------------------------------------------------------------------------
(* A session with several files *)

\* lines of a month-first export
Jan2MonthFirst == Hdr(<<1, 2, 2024>>, "/", T1000, "A", TRUE, "hi",
            "01/02/2024, 10:00 - A: hi")
Jan25MonthFirst == Hdr(<<1, 25, 2024>>, "/", T1000, "B", TRUE, "yo",
            "01/25/2024, 10:00 - B: yo")
\* the files the user can choose: a day-first chat, a month-first chat
\* whose second message decides the order, the day-first chat with CRLF
\* line ends, and a file without a message
DayFirstChat == <<Mon10A, Plain, Mon16B, Tue16A1>>
MonthFirstChat == <<Jan2MonthFirst, Plain, Jan25MonthFirst>>
CrlfChat == <<WithCR(Mon10A), WithCR(Tue16A1)>>
NoChat == <<Plain>>
SessionTexts == {DayFirstChat, MonthFirstChat, CrlfChat, NoChat}

\* the user picks a file in the file dialog: the file is processed and is
\* the text held from then on
handleFileSelect ==
    /\ calls < MaxSteps
    /\ \E file \in SessionTexts :
         \E h \in {processFile(app, file, parser, tz)} :
            /\ app' = h.app
            /\ dateFormat' = h.self.dateFormat
            /\ dateSeparator' = h.self.dateSeparator
            /\ isISOFormat' = h.self.isISOFormat
            /\ parsed' = h.parses[Len(h.parses)]
            /\ calls' = calls + Len(h.parses)
            /\ text' = file
            /\ UNCHANGED <<tz, out>>

\* One page over a session: files picked, filters applied and reset
InitSession == InitWith(SessionTexts)
NextSession == handleFileSelect \/ ApplyDateFilter \/ ResetDateFilter
SpecSession == InitSession /\ [][NextSession]_vars

\* the records of a parse whose timestamp lies from 00:00 of the first day
\* to 23:59:59 of the last day, on the clock of the records
RecordsWithin(messages, firstDay, lastDay, zone) ==
    LET from == ToInstant([d |-> firstDay, s |-> 0], zone)
        to == ToInstant([d |-> lastDay, s |-> 86399], zone)
        within(m) == ~Before(m.timestamp, from) /\ ~Before(to, m.timestamp)
    IN  SelectSeq(messages, within)

\* the day of the end of the filter, on the clock of the records
LastDayOf(dateFilter, zone) ==
    Norm(dateFilter.endDate[1].d, dateFilter.endDate[1].s + zone * 60).d

\* C24: after a date filter [start, end] is applied to a loaded chat, the
\* records held are exactly the records of the unfiltered parse whose
\* timestamp lies within start 00:00 and end 23:59:59, in the same order
\* and with the same timestamp, sender and content.
C24_FilterKeepsRecordsInRange ==
    app.handler = "applyDateFilter" =>
        app.parsedData.messages =
            RecordsWithin(parse(app.originalRawText, NewParser, tz)
                              .result.messages,
                          app.dateFilter.startDate[1].d,
                          LastDayOf(app.dateFilter, tz), tz)

\* the date order the parse of a text infers
InferredOrder(lines, zone) == parse(lines, NewParser, zone).self.dateFormat

\* C25: whenever a date filter is applied, after any loads, filters and
\* resets, the date order by which the dates of the original text's lines
\* are resolved is the order inferred from the originally loaded text.
C25_FilterUsesOrderOfOriginal ==
    [][(app'.handler = "applyDateFilter" /\ calls' > calls) =>
          dateFormat = InferredOrder(app.originalRawText, tz)]_vars

\* C26: in every state reached through file loads, succeeding or failing,
\* filters and resets, the analytics engine, when present, was constructed
\* from the ParseResult held, and the original text and original
\* ParseResult belong to the file that ParseResult comes from; a failed
\* load leaves no rejected file paired with the previous file's analytics.
C26_StoredStateIsConsistent ==
    /\ app.analytics # NoEngine =>
          app.analytics = WhatsAppAnalytics(app.parsedData)
    /\ app.originalRawText # NoText =>
          /\ app.originalParsedData =
                JsonCopy(parse(app.originalRawText, NewParser, tz).result)
          /\ IsSlice(app.parsedData.rawContent, app.originalRawText)

====
